---- MODULE Spec2Model ----
(***************************************************************************)
(* llmd: natural-language request -> shell command -> verification ->      *)
(* severity classification -> confirmation -> execution -> session history *)
(*                                                                         *)
(* Strings whose characters the code inspects (commands, queries) are      *)
(* sequences of one-character strings; strings the code only stores or     *)
(* compares whole (reasons, levels, provider names) are TLA+ strings.      *)
(***************************************************************************)
EXTENDS Integers, Sequences, FiniteSets, TLC

(***************************************************************************)
(* Regular expressions (the subset of ECMAScript the sources use).         *)
(* Ends(r, s, i) is the set of positions at which a match of r that starts *)
(* at position i of s can end; RegExp.prototype.test is "some start has a  *)
(* non-empty set of ends".                                                 *)
(***************************************************************************)
Whitespace == {" ", "\t", "\n", "\r"}
LineTerminators == {"\n", "\r"}
LowerAZ == {"a", "b", "c", "d", "e", "f", "g", "h", "i", "j", "k", "l", "m",
            "n", "o", "p", "q", "r", "s", "t", "u", "v", "w", "x", "y", "z"}

Chr(c) == <<"chr", c>>
Set(S) == <<"set", S>>
NotSet(S) == <<"nset", S>>
Dot == <<"any">>
Ws == <<"set", Whitespace>>
Bol == <<"bol">>
BolM == <<"bolm">>
Eol == <<"eol">>
Cat(rs) == <<"cat", rs>>
Alt(rs) == <<"alt", rs>>
Star(r) == <<"star", r>>
Plus(r) == <<"plus", r>>
Opt(r) == <<"opt", r>>
Empty == <<"cat", <<>>>>
Lit(w) == <<"cat", [k \in 1..Len(w) |-> <<"chr", w[k]>>]>>

RECURSIVE Ends(_, _, _)
RECURSIVE CatEnds(_, _, _, _)
RECURSIVE Closure(_, _, _, _)
CatEnds(rs, k, s, P) ==
  IF k > Len(rs) \/ P = {} THEN P
  ELSE CatEnds(rs, k + 1, s, UNION {Ends(rs[k], s, p) : p \in P})
Closure(r, s, frontier, acc) ==
  LET new == UNION {Ends(r, s, p) : p \in frontier} \ acc
  IN IF new = {} THEN acc ELSE Closure(r, s, new, acc \cup new)
Ends(r, s, i) ==
  CASE r[1] = "chr" -> IF i <= Len(s) /\ s[i] = r[2] THEN {i + 1} ELSE {}
    [] r[1] = "set" -> IF i <= Len(s) /\ s[i] \in r[2] THEN {i + 1} ELSE {}
    [] r[1] = "nset" -> IF i <= Len(s) /\ s[i] \notin r[2] THEN {i + 1} ELSE {}
    [] r[1] = "any" -> IF i <= Len(s) /\ s[i] \notin LineTerminators THEN {i + 1} ELSE {}
    [] r[1] = "bol" -> IF i = 1 THEN {i} ELSE {}
    [] r[1] = "bolm" -> IF i = 1 \/ s[i - 1] \in LineTerminators THEN {i} ELSE {}
    [] r[1] = "eol" -> IF i = Len(s) + 1 THEN {i} ELSE {}
    [] r[1] = "cat" -> CatEnds(r[2], 1, s, {i})
    [] r[1] = "alt" -> UNION {Ends(r[2][k], s, i) : k \in 1..Len(r[2])}
    [] r[1] = "opt" -> {i} \cup Ends(r[2], s, i)
    [] r[1] = "star" -> Closure(r[2], s, {i}, {i})
    [] r[1] = "plus" -> LET first == Ends(r[2], s, i) IN Closure(r[2], s, first, first)

\* RegExp.prototype.test(s): the pattern matches somewhere in s
Test(r, s) == \E i \in 1..(Len(s) + 1) : Ends(r, s, i) # {}

\* String.prototype.trim()
RECURSIVE TrimStart(_)
TrimStart(s) == IF s # <<>> /\ Head(s) \in Whitespace THEN TrimStart(Tail(s)) ELSE s
RECURSIVE TrimEnd(_)
TrimEnd(s) ==
  IF s # <<>> /\ s[Len(s)] \in Whitespace THEN TrimEnd(SubSeq(s, 1, Len(s) - 1)) ELSE s
Trim(s) == TrimEnd(TrimStart(s))

(***************************************************************************)
(* Severity classifier (services/severity.ts)                              *)
(***************************************************************************)
DANGER_PATTERNS == <<
  [pattern |-> Cat(<<Lit(<<"r", "m">>), Plus(Ws), Star(Cat(<<Chr("-"), Plus(Set({"r", "f"})), Plus(Ws)>>)), Chr("/"), Alt(<<Eol, Ws, Chr(";")>>)>>),
   level |-> "critical", reason |-> "Attempts to delete root filesystem"],
  [pattern |-> Cat(<<Lit(<<"r", "m">>), Plus(Ws), Chr("-"), Star(Set({"r", "f"})), Plus(Ws), Lit(<<"-", "-", "n", "o", "-", "p", "r", "e", "s", "e", "r", "v", "e", "-", "r", "o", "o", "t">>)>>),
   level |-> "critical", reason |-> "Bypasses root deletion protection"],
  [pattern |-> Cat(<<Lit(<<"m", "k", "f", "s">>), Plus(Ws)>>),
   level |-> "critical", reason |-> "Formats a filesystem, destroying all data"],
  [pattern |-> Cat(<<Lit(<<"d", "d">>), Plus(Ws), Star(Dot), Lit(<<"o", "f", "=", "/", "d", "e", "v", "/">>), Set({"s", "h"}), Chr("d"), Set(LowerAZ)>>),
   level |-> "critical", reason |-> "Writes directly to disk, can destroy data"],
  [pattern |-> Cat(<<Lit(<<":", "(", ")", "{">>), Star(Ws), Lit(<<":", "|", ":", "&">>), Star(Ws), Lit(<<"}", ";", ":">>)>>),
   level |-> "critical", reason |-> "Fork bomb - will crash the system"],
  [pattern |-> Cat(<<Chr(">"), Star(Ws), Lit(<<"/", "d", "e", "v", "/">>), Set({"s", "h"}), Chr("d"), Set(LowerAZ)>>),
   level |-> "critical", reason |-> "Writes directly to disk device"],
  [pattern |-> Cat(<<Lit(<<"m", "v">>), Plus(Ws), Star(Dot), Plus(Ws), Lit(<<"/", "d", "e", "v", "/", "n", "u", "l", "l">>)>>),
   level |-> "critical", reason |-> "Moves files to /dev/null, destroying them"],
  [pattern |-> Cat(<<Lit(<<"s", "u", "d", "o">>), Plus(Ws), Lit(<<"r", "m">>), Plus(Ws), Chr("-"), Plus(Set({"r", "f"}))>>),
   level |-> "high", reason |-> "Elevated recursive/force deletion"],
  [pattern |-> Cat(<<Lit(<<"c", "h", "m", "o", "d">>), Plus(Ws), Opt(Cat(<<Lit(<<"-", "R">>), Plus(Ws)>>)), Alt(<<Lit(<<"7", "7", "7">>), Lit(<<"0", "0", "0">>)>>)>>),
   level |-> "high", reason |-> "Sets dangerous file permissions"],
  [pattern |-> Cat(<<Lit(<<"c", "h", "o", "w", "n">>), Plus(Ws), Lit(<<"-", "R">>), Plus(Ws), Star(Dot), Plus(Ws), Chr("/")>>),
   level |-> "high", reason |-> "Recursive ownership change on root"],
  [pattern |-> Cat(<<Chr(">"), Star(Ws), Lit(<<"/", "e", "t", "c", "/">>)>>),
   level |-> "high", reason |-> "Overwrites system configuration"],
  [pattern |-> Cat(<<Lit(<<"c", "u", "r", "l">>), Plus(Ws), Star(Dot), Chr("|"), Star(Ws), Opt(Cat(<<Lit(<<"s", "u", "d", "o">>), Plus(Ws)>>)), Opt(Lit(<<"b", "a">>)), Lit(<<"s", "h">>)>>),
   level |-> "high", reason |-> "Pipes remote script to shell"],
  [pattern |-> Cat(<<Lit(<<"w", "g", "e", "t">>), Plus(Ws), Star(Dot), Chr("|"), Star(Ws), Opt(Cat(<<Lit(<<"s", "u", "d", "o">>), Plus(Ws)>>)), Opt(Lit(<<"b", "a">>)), Lit(<<"s", "h">>)>>),
   level |-> "high", reason |-> "Pipes remote script to shell"],
  [pattern |-> Cat(<<Lit(<<"e", "v", "a", "l">>), Plus(Ws), Star(Dot), Lit(<<"$", "(">>)>>),
   level |-> "high", reason |-> "Executes dynamically generated code"],
  [pattern |-> Alt(<<Cat(<<Chr(":"), Empty, Lit(<<"{", " ", ":">>)>>), Lit(<<":", "&", " ", "}", ";", ":">>)>>),
   level |-> "high", reason |-> "Fork bomb pattern variant"],
  [pattern |-> Cat(<<Lit(<<"r", "m">>), Plus(Ws), Chr("-"), Plus(Set({"r", "f"}))>>),
   level |-> "medium", reason |-> "Recursive/force file deletion"],
  [pattern |-> Cat(<<Lit(<<"r", "m">>), Plus(Ws), Chr("*")>>),
   level |-> "medium", reason |-> "Deletes multiple files with wildcard"],
  [pattern |-> Cat(<<Lit(<<"s", "u", "d", "o">>), Plus(Ws)>>),
   level |-> "medium", reason |-> "Runs command with elevated privileges"],
  [pattern |-> Cat(<<Chr(">"), Plus(Ws), Plus(NotSet({"|", "&"})), Chr("."), Alt(<<Lit(<<"c", "o", "n", "f">>), Lit(<<"c", "f", "g">>), Lit(<<"i", "n", "i">>), Lit(<<"j", "s", "o", "n">>), Lit(<<"y", "a", "m", "l">>), Lit(<<"y", "m", "l">>)>>)>>),
   level |-> "medium", reason |-> "Overwrites configuration file"],
  [pattern |-> Cat(<<Lit(<<"p", "i", "p">>), Plus(Ws), Lit(<<"i", "n", "s", "t", "a", "l", "l">>), Plus(Ws), Lit(<<"-", "-", "u", "s", "e", "r">>), Plus(Ws)>>),
   level |-> "medium", reason |-> "Installs Python packages globally"],
  [pattern |-> Cat(<<Lit(<<"n", "p", "m">>), Plus(Ws), Lit(<<"i", "n", "s", "t", "a", "l", "l">>), Plus(Ws), Lit(<<"-", "g">>)>>),
   level |-> "medium", reason |-> "Installs npm packages globally"],
  [pattern |-> Cat(<<Lit(<<"a", "p", "t">>), Opt(Lit(<<"-", "g", "e", "t">>)), Plus(Ws), Alt(<<Lit(<<"r", "e", "m", "o", "v", "e">>), Lit(<<"p", "u", "r", "g", "e">>)>>)>>),
   level |-> "medium", reason |-> "Removes system packages"],
  [pattern |-> Cat(<<Lit(<<"b", "r", "e", "w">>), Plus(Ws), Lit(<<"u", "n", "i", "n", "s", "t", "a", "l", "l">>)>>),
   level |-> "medium", reason |-> "Removes Homebrew packages"],
  [pattern |-> Cat(<<Lit(<<"s", "y", "s", "t", "e", "m", "c", "t", "l">>), Plus(Ws), Alt(<<Lit(<<"s", "t", "o", "p">>), Lit(<<"d", "i", "s", "a", "b", "l", "e">>), Lit(<<"m", "a", "s", "k">>)>>)>>),
   level |-> "medium", reason |-> "Modifies system services"],
  [pattern |-> Cat(<<Lit(<<"k", "i", "l", "l">>), Plus(Ws), Lit(<<"-", "9">>)>>),
   level |-> "medium", reason |-> "Force kills processes"],
  [pattern |-> Alt(<<Lit(<<"p", "k", "i", "l", "l">>), Lit(<<"k", "i", "l", "l", "a", "l", "l">>)>>),
   level |-> "medium", reason |-> "Kills processes by name"],
  [pattern |-> Cat(<<Lit(<<"r", "m">>), Plus(Ws)>>),
   level |-> "low", reason |-> "Deletes files"],
  [pattern |-> Cat(<<Lit(<<"m", "v">>), Plus(Ws)>>),
   level |-> "low", reason |-> "Moves/renames files"],
  [pattern |-> Cat(<<Lit(<<"c", "p">>), Plus(Ws), Chr("-"), Star(Set({"r", "f"}))>>),
   level |-> "low", reason |-> "Copies files (may overwrite)"],
  [pattern |-> Cat(<<Chr(">"), Plus(Ws)>>),
   level |-> "low", reason |-> "Redirects output (may overwrite file)"],
  [pattern |-> Cat(<<Lit(<<"g", "i", "t">>), Plus(Ws), Alt(<<Lit(<<"r", "e", "s", "e", "t">>), Lit(<<"r", "e", "b", "a", "s", "e">>), Cat(<<Lit(<<"p", "u", "s", "h">>), Plus(Ws), Lit(<<"-", "f">>)>>), Cat(<<Lit(<<"p", "u", "s", "h">>), Plus(Ws), Lit(<<"-", "-", "f", "o", "r", "c", "e">>)>>)>>)>>),
   level |-> "low", reason |-> "Potentially destructive git operation"],
  [pattern |-> Cat(<<Lit(<<"d", "o", "c", "k", "e", "r">>), Plus(Ws), Alt(<<Lit(<<"r", "m">>), Lit(<<"r", "m", "i">>), Lit(<<"p", "r", "u", "n", "e">>)>>)>>),
   level |-> "low", reason |-> "Removes Docker resources"]
>>

severityOrder == <<"safe", "low", "medium", "high", "critical">>
indexOf(seq, x) == IF \E k \in 1..Len(seq) : seq[k] = x
                   THEN (CHOOSE k \in 1..Len(seq) : seq[k] = x /\ \A j \in 1..(k - 1) : seq[j] # x) - 1
                   ELSE -1

\* mutant: duplicates are kept
Dedup_none(ws) == ws
\* [...new Set(warnings)]: duplicates removed, first-seen order kept
RECURSIVE Dedup(_)
Dedup(ws) ==
  IF ws = <<>> THEN <<>>
  ELSE LET init == Dedup(SubSeq(ws, 1, Len(ws) - 1))
           last == ws[Len(ws)]
       IN IF \E k \in 1..Len(init) : init[k] = last THEN init ELSE Append(init, last)

\* mutant: the last matching entry decides the level
RECURSIVE ScanPatterns_lastMatchWins(_, _, _)
ScanPatterns_lastMatchWins(command, k, acc) ==
  IF k > Len(DANGER_PATTERNS) THEN acc
  ELSE LET p == DANGER_PATTERNS[k]
       IN IF Test(p.pattern, command)
          THEN ScanPatterns_lastMatchWins(command, k + 1,
                 [warnings |-> Append(acc.warnings, p.reason), level |-> p.level, reason |-> p.reason])
          ELSE ScanPatterns_lastMatchWins(command, k + 1, acc)
RECURSIVE ScanPatterns(_, _, _)
ScanPatterns(command, k, acc) ==
  IF k > Len(DANGER_PATTERNS) THEN acc
  ELSE LET p == DANGER_PATTERNS[k]
       IN IF Test(p.pattern, command)
          THEN ScanPatterns(command, k + 1,
                 IF indexOf(severityOrder, p.level) > indexOf(severityOrder, acc.level)
                 THEN [warnings |-> Append(acc.warnings, p.reason), level |-> p.level, reason |-> p.reason]
                 ELSE [acc EXCEPT !.warnings = Append(acc.warnings, p.reason)])
          ELSE ScanPatterns(command, k + 1, acc)

checkSeverity(command) ==
  LET scanned == ScanPatterns(command, 1, [warnings |-> <<>>, level |-> "safe", reason |-> ""])
  IN [level |-> scanned.level, reason |-> scanned.reason, warnings |-> Dedup(scanned.warnings)]

\* mutant: only critical commands are gated
requiresConfirmation_criticalOnly(level) == level = "critical"
\* mutant: medium commands are gated as well
requiresConfirmation_mediumToo(level) == level \in {"critical", "high", "medium"}
requiresConfirmation(level) == level = "critical" \/ level = "high"

(***************************************************************************)
(* Strings used as inputs                                                  *)
(***************************************************************************)
CmdLs == <<"l", "s", " ", "-", "l", "a">>
CmdRmRoot == <<"r", "m", " ", "-", "r", "f", " ", "/">>
CmdChmod == <<"c", "h", "m", "o", "d", " ", "7", "7", "7", " ", "x">>
CmdMv == <<"m", "v", " ", "a", " ", "b">>
CmdEcho == <<"e", "c", "h", "o", " ", "\"", "h", "i", "\"">>
CmdRmRootPadded == <<" ">> \o CmdRmRoot
CmdEchoEtc == CmdEcho \o <<" ", ">", " ", "/", "e", "t", "c", "/", "x">>
CmdRmNodeModules ==
  <<"r", "m", " ", "-", "r", "f", " ", ".", "/", "n", "o", "d", "e", "_",
    "m", "o", "d", "u", "l", "e", "s">>
CmdSudoRm == <<"s", "u", "d", "o", " ", "r", "m", " ", "-", "r", "f", " ", "x">>
CmdRmFile == <<"r", "m", " ", "x">>
CmdRmStar == <<"r", "m", " ", "*">>
CmdKill == <<"k", "i", "l", "l", " ", "-", "9", " ", "1">>
CmdMvDevNull == <<"m", "v", " ", "a", " ", "/", "d", "e", "v", "/", "n", "u", "l", "l">>
CmdGitPush == <<"g", "i", "t", " ", "p", "u", "s", "h", " ", "-", "f">>
CmdEtc == <<"l", "s", " ", ">", " ", "/", "e", "t", "c", "/", "x">>
CmdForkBomb == <<":", "(", ")", "{", " ", ":", "|", ":", "&", " ", "}", ";", ":">>
CmdCurlWget ==
  <<"c", "u", "r", "l", " ", "a", "|", "w", "g", "e", "t", " ", "b", "|", "s", "h">>
CmdSudoKill == <<"s", "u", "d", "o", " ">> \o CmdKill
EmptyString == <<>>
Blank == <<" ">>

QueryHi == <<"H", "i">>
QueryList == <<"l", "i", "s", "t">>
MsgHi == <<"h", "i">>
InfoX == <<"x">>

\* the bounds of the model
MaxRuns == 2

Queries == {QueryHi, QueryList}
\* what the model may answer with: the command extractCommand leaves (empty
\* when nothing could be extracted) and its explanation
GeneratedCommands ==
  {CmdLs, CmdMv, CmdRmNodeModules, CmdChmod, CmdRmRoot, CmdEcho, CmdEchoEtc, EmptyString}
Explanations == {"Generated command"}
\* what the user may type at the 'Edit command:' prompt (Enter alone gives
\* the prompt's default, the generated command)
EditedCommands == {Blank, CmdMv, CmdRmRootPadded}
\* what the user may type at 'Add more details:' and at the next-query prompt
AdditionalInfos == {EmptyString, Blank, InfoX}
NextQueries == {EmptyString, QueryList}
\* confidenceThreshold values: the two ends of what config set-threshold
\* accepts (0..100)
Thresholds == {0, 100}
ProviderNames == {"openai", "anthropic"}
ApiKeys == {"", "sk-key"}

\* checkSeverity of the commands above, computed once
SeverityTable == {<<c, checkSeverity(c)>> : c \in GeneratedCommands \cup EditedCommands}
severityOf(command) ==
  IF \E row \in SeverityTable : row[1] = command
  THEN (CHOOSE row \in SeverityTable : row[1] = command)[2]
  ELSE checkSeverity(command)

\* JS values: undefined / "" are falsy strings
Undefined == <<>>
Truthy(s) == s # <<>>
None == <<>>
Some(x) == <<x>>

(***************************************************************************)
(* ConfigManager (config/manager.ts)                                       *)
(* providers[n] is the apiKey of the entry, "" when absent or empty        *)
(***************************************************************************)
\* mutant: an entry counts as configured even without an apiKey
hasAnyProvider_anyEntry(provs) == DOMAIN provs # {}
hasAnyProvider(provs) == \E n \in DOMAIN provs : provs[n] # ""

\* the provider name, "null" when none is configured
getActiveProviderConfig(provs, dflt) ==
  IF provs[dflt] # "" THEN dflt
  ELSE IF \E n \in DOMAIN provs : provs[n] # ""
       THEN CHOOSE n \in DOMAIN provs : provs[n] # ""
       ELSE "null"

(***************************************************************************)
(* BaseLLMProvider.verifyCommand (providers/base.ts)                       *)
(* A chat outcome is "throw" (the provider call rejects), "garbage" (text  *)
(* parseJSON cannot parse) or "json" with the reported fields.             *)
(***************************************************************************)
Min(a, b) == IF a < b THEN a ELSE b
Max(a, b) == IF a > b THEN a ELSE b

\* reported confidence: None when missing or not a number, else Some(v)
ReportedConfidences == {None, Some(150)}
ReportedBooleans == {"missing", "true", "false"}
ReportedIssues == {[isArray |-> TRUE, items |-> <<"wrong flag">>]}
ReportedQuestions == {[isArray |-> TRUE, items |-> <<"which directory?">>],
                      [isArray |-> TRUE, items |-> <<>>],
                      [isArray |-> FALSE, items |-> <<>>]}

NoReport == [confidence |-> None, isCorrect |-> "missing",
             issues |-> [isArray |-> FALSE, items |-> <<>>],
             suggestedQuestions |-> [isArray |-> FALSE, items |-> <<>>]]
VerifyResponses ==
  {[kind |-> "throw", parsed |-> NoReport], [kind |-> "garbage", parsed |-> NoReport]}
  \cup {[kind |-> "json",
         parsed |-> [confidence |-> c, isCorrect |-> b, issues |-> i, suggestedQuestions |-> q]] :
        c \in ReportedConfidences, b \in ReportedBooleans,
        i \in ReportedIssues, q \in ReportedQuestions}

\* JavaScript values a parsed JSON field can hold
JsUndefined == [type |-> "undefined", num |-> 0, text |-> <<>>]
JsNull == [type |-> "null", num |-> 0, text |-> <<>>]
JsNumber(n) == [type |-> "number", num |-> n, text |-> <<>>]
JsString(t) == [type |-> "string", num |-> 0, text |-> t]
JsBoolean(b) == [type |-> "boolean", num |-> IF b THEN 1 ELSE 0, text |-> <<>>]

Digits == <<"0", "1", "2", "3", "4", "5", "6", "7", "8", "9">>
IsDigit(c) == \E d \in 1..10 : Digits[d] = c
DigitValue(c) == (CHOOSE d \in 1..10 : Digits[d] = c) - 1
RECURSIVE ParseDigits(_, _)
ParseDigits(t, acc) ==
  IF t = <<>> THEN acc ELSE ParseDigits(Tail(t), 10 * acc + DigitValue(Head(t)))
\* StringToNumber for decimal integer literals: None is NaN
StringToNumber(t) ==
  LET trimmed == Trim(t)
      negative == trimmed # <<>> /\ Head(trimmed) = "-"
      body == IF negative THEN Tail(trimmed) ELSE trimmed
  IN IF trimmed = <<>> THEN Some(0)
     ELSE IF body # <<>> /\ \A k \in 1..Len(body) : IsDigit(body[k])
     THEN Some(IF negative THEN 0 - ParseDigits(body, 0) ELSE ParseDigits(body, 0))
     ELSE None
\* Number(value): None is NaN
ToNumber(v) ==
  CASE v.type = "undefined" -> None
    [] v.type = "null" -> Some(0)
    [] v.type = "number" -> Some(v.num)
    [] v.type = "boolean" -> Some(v.num)
    [] v.type = "string" -> StringToNumber(v.text)

\* Number(parsed.confidence) || 50 : NaN and 0 are falsy
NumberOr50(reported) ==
  IF reported = None THEN 50 ELSE IF reported[1] = 0 THEN 50 ELSE reported[1]

\* mutant: the confidence is taken as reported, without clamping
ParsedVerification_unclamped(parsed) ==
  [confidence |-> NumberOr50(parsed.confidence),
   isCorrect |-> (parsed.isCorrect # "false"),
   issues |-> IF parsed.issues.isArray THEN parsed.issues.items ELSE <<>>,
   suggestedQuestions |-> IF parsed.suggestedQuestions.isArray
                          THEN parsed.suggestedQuestions.items ELSE <<>>]
\* the try block of verifyCommand
ParsedVerification(parsed) ==
  [confidence |-> Min(100, Max(0, NumberOr50(parsed.confidence))),
   isCorrect |-> (parsed.isCorrect # "false"),
   issues |-> IF parsed.issues.isArray THEN parsed.issues.items ELSE <<>>,
   suggestedQuestions |-> IF parsed.suggestedQuestions.isArray
                          THEN parsed.suggestedQuestions.items ELSE <<>>]

\* mutant: an unparsed verdict counts as no confidence at all
FallbackVerification_zeroConfidence ==
  [confidence |-> 0, isCorrect |-> FALSE,
   issues |-> <<"Could not fully verify command">>, suggestedQuestions |-> <<>>]
\* the catch block of verifyCommand
FallbackVerification ==
  [confidence |-> 60, isCorrect |-> TRUE,
   issues |-> <<"Could not fully verify command">>, suggestedQuestions |-> <<>>]

\* the chat call is made outside the try block (lines 35-38): a rejected call
\* rejects verifyCommand
\* mutant: the chat call moved inside the try block
VerifyThrows_never(response) == FALSE
\* mutant: an unparsed verdict is rethrown
VerifyThrows_unparsedToo(response) == response.kind # "json"
VerifyThrows(response) == response.kind = "throw"

\* the result for a chat response that did not throw
ProviderVerifyCommand(response) ==
  IF response.kind = "json" THEN ParsedVerification(response.parsed) ELSE FallbackVerification

(***************************************************************************)
(* services/verifier.ts: verifyCommand and checkIfInformationalResponse    *)
(***************************************************************************)
\* mutant: > instead of >=
Passed_strictlyAbove(result, threshold) == result.confidence > threshold /\ result.isCorrect
Passed(result, threshold) == result.confidence >= threshold /\ result.isCorrect
\* mutant: any suggested question asks for clarification
NeedsClarification_questionsOnly(result, threshold) == Len(result.suggestedQuestions) > 0
NeedsClarification(result, threshold) ==
  ~Passed(result, threshold) /\ Len(result.suggestedQuestions) > 0

Quote == Set({"\"", "'"})
LooksLikeEcho ==
  Cat(<<Bol, Alt(<<Lit(<<"e", "c", "h", "o">>), Lit(<<"p", "r", "i", "n", "t", "f">>)>>), Plus(Ws)>>)
\* /^echo\s+["'](.+)["']\s*$/ split around its capture group
EchoPrefix == Cat(<<Bol, Lit(<<"e", "c", "h", "o">>), Plus(Ws), Quote>>)
EchoGroup == Plus(Dot)
EchoSuffix == Cat(<<Quote, Star(Ws), Eol>>)

SetMax(S) == CHOOSE x \in S : \A y \in S : y <= x

\* String.prototype.match of the echo pattern: None, or Some(group 1). The
\* quantifiers are greedy: the longest feasible whitespace run, then the
\* longest feasible group.
EchoSpans(s) ==
  {<<a, b>> \in (1..(Len(s) + 1)) \X (1..(Len(s) + 1)) :
     /\ a \in Ends(EchoPrefix, s, 1)
     /\ b \in Ends(EchoGroup, s, a)
     /\ Ends(EchoSuffix, s, b) # {}}
echoMatch(s) ==
  LET spans == EchoSpans(s)
  IN IF spans = {} THEN None
     ELSE LET a == SetMax({sp[1] : sp \in spans})
              b == SetMax({sp[2] : sp \in {x \in spans : x[1] = a}})
          IN Some(SubSeq(s, a, b - 1))

UpperOf(c) ==
  CASE c = "a" -> "A" [] c = "b" -> "B" [] c = "c" -> "C" [] c = "d" -> "D" [] c = "e" -> "E"
    [] c = "f" -> "F" [] c = "g" -> "G" [] c = "h" -> "H" [] c = "i" -> "I" [] c = "j" -> "J"
    [] c = "k" -> "K" [] c = "l" -> "L" [] c = "m" -> "M" [] c = "n" -> "N" [] c = "o" -> "O"
    [] c = "p" -> "P" [] c = "q" -> "Q" [] c = "r" -> "R" [] c = "s" -> "S" [] c = "t" -> "T"
    [] c = "u" -> "U" [] c = "v" -> "V" [] c = "w" -> "W" [] c = "x" -> "X" [] c = "y" -> "Y"
    [] c = "z" -> "Z" [] OTHER -> c
\* a literal under the /i flag
LitI(w) == <<"cat", [k \in 1..Len(w) |-> <<"set", {w[k], UpperOf(w[k])}>>]>>
conversationalPatterns ==
  Cat(<<Bol, Alt(<<LitI(<<"w", "h", "o">>), LitI(<<"w", "h", "a", "t">>), LitI(<<"h", "o", "w">>),
                   LitI(<<"w", "h", "y">>), LitI(<<"h", "e", "l", "l", "o">>), LitI(<<"h", "i">>),
                   LitI(<<"h", "e", "y">>), LitI(<<"h", "e", "l", "p">>),
                   LitI(<<"t", "h", "a", "n", "k">>),
                   LitI(<<"c", "a", "n", " ", "y", "o", "u">>),
                   LitI(<<"t", "e", "l", "l", " ", "m", "e", " ", "a", "b", "o", "u", "t">>)>>)>>)

\* the model's answer to the informational prompt
InfoResponses ==
  {[kind |-> "throw", isInformational |-> FALSE, message |-> Undefined],
   [kind |-> "garbage", isInformational |-> FALSE, message |-> Undefined]}
  \cup {[kind |-> "json", isInformational |-> b, message |-> m] :
        b \in BOOLEAN, m \in {Undefined, MsgHi}}

NotInformational == [isInformational |-> FALSE, message |-> Undefined]

\* BaseLLMProvider.checkInformationalResponse: never throws
\* the two tests of the catch block, computed once for the commands and the
\* queries above
EchoMatchTable == {<<c, echoMatch(Trim(c))>> : c \in GeneratedCommands}
echoMatchOf(command) ==
  IF \E row \in EchoMatchTable : row[1] = command
  THEN (CHOOSE row \in EchoMatchTable : row[1] = command)[2]
  ELSE echoMatch(Trim(command))
ConversationalTable == {<<q, Test(conversationalPatterns, Trim(q))>> : q \in Queries}
isConversational(query) ==
  IF \E row \in ConversationalTable : row[1] = query
  THEN (CHOOSE row \in ConversationalTable : row[1] = query)[2]
  ELSE Test(conversationalPatterns, Trim(query))
ProviderCheckInformational(command, query, response) ==
  IF response.kind = "json"
  THEN [isInformational |-> response.isInformational,
        message |-> IF Truthy(response.message) THEN response.message ELSE Undefined]
  ELSE IF echoMatchOf(command) # None /\ isConversational(query)
  THEN [isInformational |-> TRUE, message |-> echoMatchOf(command)[1]]
  ELSE NotInformational

\* verifier.ts checkIfInformationalResponse: the provider is asked only for
\* a command that looks like echo/printf
\* mutant: the pre-check is skipped
looksLikeEcho_always(command) == TRUE
looksLikeEcho(command) == Test(LooksLikeEcho, Trim(command))
LooksLikeEchoTable == {<<c, looksLikeEcho(c)>> : c \in GeneratedCommands}
looksLikeEchoOf(command) ==
  IF \E row \in LooksLikeEchoTable : row[1] = command
  THEN (CHOOSE row \in LooksLikeEchoTable : row[1] = command)[2]
  ELSE looksLikeEcho(command)
\* llmService.checkInformationalResponse rejected (lines 49-56)
ServiceRejects == [kind |-> "reject", isInformational |-> FALSE, message |-> Undefined]
VerifierFallback(command) ==
  IF echoMatchOf(command) # None
  THEN [isInformational |-> TRUE, message |-> echoMatchOf(command)[1]]
  ELSE NotInformational
checkIfInformationalResponse(command, query, response) ==
  IF ~looksLikeEchoOf(command) THEN NotInformational
  ELSE IF response = ServiceRejects THEN VerifierFallback(command)
  ELSE ProviderCheckInformational(command, query, response)

(***************************************************************************)
(* JSON.parse, for the texts the extractor meets: objects whose members    *)
(* are strings (escapes \" \\ \/ \n \t \r), integers, true, false, null or *)
(* objects.  A result is [ok, members]; ok = FALSE is a SyntaxError.       *)
(***************************************************************************)
Backslash == "\\"
DoubleQuote == "\""
ControlChars == {"\n", "\t", "\r"}
EscapeChars == {"\"", "\\", "/", "n", "t", "r"}
EscapedChar(c) ==
  CASE c = "n" -> "\n" [] c = "t" -> "\t" [] c = "r" -> "\r" [] OTHER -> c

\* the character at position i, "" past the end
At(s, i) == IF i \in 1..Len(s) THEN s[i] ELSE ""
SetMin(S) == CHOOSE x \in S : \A y \in S : x <= y
\* s has w at position i
HasAt(s, w, i) == i >= 1 /\ i + Len(w) - 1 <= Len(s) /\ SubSeq(s, i, i + Len(w) - 1) = w
\* String.prototype.includes / startsWith
Includes(s, w) == \E i \in 1..(Len(s) + 1) : HasAt(s, w, i)
StartsWith(s, w) == HasAt(s, w, 1)

RECURSIVE SkipWs(_, _)
SkipWs(s, i) == IF At(s, i) \in Whitespace THEN SkipWs(s, i + 1) ELSE i

\* the number of consecutive backslashes that end just before position j,
\* not looking before position lo
RunBefore(s, j, lo) ==
  CHOOSE r \in 0..(j - lo) :
    /\ \A k \in (j - r)..(j - 1) : s[k] = Backslash
    /\ (j - r = lo \/ s[j - r - 1] # Backslash)

\* the body of a string literal: its tokens are single characters or a
\* backslash with the character after it
IsTokenStart(t) == t.start
StringTokens(body) ==
  SelectSeq([k \in 1..Len(body) |->
               [c |-> body[k],
                start |-> RunBefore(body, k, 1) % 2 = 0,
                next |-> At(body, k + 1)]],
            IsTokenStart)
ValidTokens(tokens) ==
  \A k \in 1..Len(tokens) :
    IF tokens[k].c = Backslash THEN tokens[k].next \in EscapeChars
    ELSE tokens[k].c \notin ControlChars
Unescaped(tokens) ==
  [k \in 1..Len(tokens) |->
     IF tokens[k].c = Backslash THEN EscapedChar(tokens[k].next) ELSE tokens[k].c]

SyntaxError == [ok |-> FALSE, type |-> "error", text |-> <<>>, next |-> 0]
\* the positions of the unescaped double quotes after position i
Closers(s, i) ==
  {j \in (i + 1)..Len(s) : s[j] = DoubleQuote /\ RunBefore(s, j, i + 1) % 2 = 0}
StringOf(tokens, next) ==
  IF ValidTokens(tokens)
  THEN [ok |-> TRUE, type |-> "string", text |-> Unescaped(tokens), next |-> next]
  ELSE SyntaxError
StringUpTo(s, i, closers) ==
  IF closers = {} THEN SyntaxError
  ELSE StringOf(StringTokens(SubSeq(s, i + 1, SetMin(closers) - 1)), SetMin(closers) + 1)
\* the string literal that opens at position i
ParseString(s, i) == StringUpTo(s, i, Closers(s, i))

RECURSIVE DigitsEnd(_, _)
DigitsEnd(s, i) == IF IsDigit(At(s, i)) THEN DigitsEnd(s, i + 1) ELSE i
ParseNumber(s, i) ==
  LET from == IF At(s, i) = "-" THEN i + 1 ELSE i
      to == DigitsEnd(s, from)
  IN IF to > from
     THEN [ok |-> TRUE, type |-> "number", text |-> SubSeq(s, i, to - 1), next |-> to]
     ELSE SyntaxError
JsonLiterals ==
  {[word |-> <<"t", "r", "u", "e">>, type |-> "true"],
   [word |-> <<"f", "a", "l", "s", "e">>, type |-> "false"],
   [word |-> <<"n", "u", "l", "l">>, type |-> "null"]}

RECURSIVE ParseValue(_, _)
RECURSIVE ParseMembers(_, _, _)
MembersError == [ok |-> FALSE, members |-> <<>>, next |-> 0]
\* after a member: a comma and the next member, or the closing brace
AfterMember(s, after, members) ==
  IF At(s, after) = "," THEN ParseMembers(s, SkipWs(s, after + 1), members)
  ELSE IF At(s, after) = "}" THEN [ok |-> TRUE, members |-> members, next |-> after + 1]
  ELSE MembersError
AfterValue(s, key, value, acc) ==
  IF ~value.ok THEN MembersError
  ELSE AfterMember(s, SkipWs(s, value.next),
                   Append(acc, [key |-> key.text, type |-> value.type, text |-> value.text]))
AfterColon(s, key, colon, acc) ==
  IF At(s, colon) # ":" THEN MembersError
  ELSE AfterValue(s, key, ParseValue(s, SkipWs(s, colon + 1)), acc)
AfterKey(s, key, acc) ==
  IF ~key.ok THEN MembersError ELSE AfterColon(s, key, SkipWs(s, key.next), acc)
\* the members of an object from position i, after those in acc
ParseMembers(s, i, acc) ==
  IF At(s, i) # DoubleQuote THEN MembersError ELSE AfterKey(s, ParseString(s, i), acc)
ObjectFrom(s, j) ==
  IF At(s, j) = "}" THEN [ok |-> TRUE, members |-> <<>>, next |-> j + 1]
  ELSE ParseMembers(s, j, <<>>)
\* the object that opens at position i: [ok, members, next]
ParseObject(s, i) == ObjectFrom(s, SkipWs(s, i + 1))
ObjectValue(object) ==
  IF object.ok THEN [ok |-> TRUE, type |-> "object", text |-> <<>>, next |-> object.next]
  ELSE SyntaxError
LiteralValue(l, i) == [ok |-> TRUE, type |-> l.type, text |-> <<>>, next |-> i + Len(l.word)]
ParseValue(s, i) ==
  IF At(s, i) = DoubleQuote THEN ParseString(s, i)
  ELSE IF At(s, i) = "{" THEN ObjectValue(ParseObject(s, i))
  ELSE IF \E l \in JsonLiterals : HasAt(s, l.word, i)
  THEN LiteralValue(CHOOSE l \in JsonLiterals : HasAt(s, l.word, i), i)
  ELSE ParseNumber(s, i)

NotParsed == [ok |-> FALSE, members |-> <<>>]
WholeText(text, object) ==
  IF object.ok /\ SkipWs(text, object.next) = Len(text) + 1
  THEN [ok |-> TRUE, members |-> object.members]
  ELSE NotParsed
ObjectAt(text, i) ==
  IF At(text, i) # "{" THEN NotParsed ELSE WholeText(text, ParseObject(text, i))
\* JSON.parse(text) for a text that is an object
JSONparse(text) == ObjectAt(text, SkipWs(text, 1))

\* parsed[key]: the last member of that name, or undefined
NoMember == [key |-> <<>>, type |-> "undefined", text |-> <<>>]
Member(members, key) ==
  LET at == {k \in 1..Len(members) : members[k].key = key}
  IN IF at = {} THEN NoMember ELSE members[SetMax(at)]

(***************************************************************************)
(* BaseLLMProvider: parseJSON, extractCommand, extractNestedCommand and    *)
(* sanitizeCommand (providers/base.ts)                                     *)
(***************************************************************************)
\* the grave accent (U+0060), which a TLA+ string cannot hold
Backtick == "backtick"
Fence == <<Backtick, Backtick, Backtick>>
CommandKey == <<"c", "o", "m", "m", "a", "n", "d">>
ExplanationKey == <<"e", "x", "p", "l", "a", "n", "a", "t", "i", "o", "n">>
QuotedCommandKey == <<DoubleQuote>> \o CommandKey \o <<DoubleQuote>>
WordChars ==
  LowerAZ \cup {UpperOf(c) : c \in LowerAZ} \cup {Digits[d] : d \in 1..10} \cup {"_"}

\* String.prototype.replace(/r/g, replacement) for patterns that match no
\* empty string and whose quantifiers are all greedy: the leftmost match,
\* at its longest, is replaced and the scan goes on after it
RECURSIVE ReplaceFrom(_, _, _, _)
ReplaceFrom(r, s, replacement, i) ==
  IF i > Len(s) THEN <<>>
  ELSE LET ends == Ends(r, s, i) \ {i}
       IN IF ends # {} THEN replacement \o ReplaceFrom(r, s, replacement, SetMax(ends))
          ELSE <<s[i]>> \o ReplaceFrom(r, s, replacement, i + 1)
ReplaceAll(r, s, replacement) == ReplaceFrom(r, s, replacement, 1)

\* /"key"\s*:\s*"((?:[^"\\]|\\.)*)"/ : None, or Some(group 1) of the
\* leftmost match
KeyPrefix(key) ==
  Cat(<<Lit(<<DoubleQuote>> \o key \o <<DoubleQuote>>), Star(Ws), Chr(":"), Star(Ws),
        Chr(DoubleQuote)>>)
KeyBody == Star(Alt(<<NotSet({DoubleQuote, Backslash}), Cat(<<Chr(Backslash), Dot>>)>>))
KeySpans(key, s, i) ==
  IF ~HasAt(s, <<DoubleQuote>> \o key \o <<DoubleQuote>>, i) THEN {}
  ELSE {<<a, b>> \in (1..(Len(s) + 1)) \X (1..(Len(s) + 1)) :
          /\ a \in Ends(KeyPrefix(key), s, i)
          /\ b \in Ends(KeyBody, s, a)
          /\ At(s, b) = DoubleQuote}
KeyGroup(s, spans, a) ==
  Some(SubSeq(s, a, SetMax({sp[2] : sp \in {x \in spans : x[1] = a}}) - 1))
KeyMatchIn(s, spans) == KeyGroup(s, spans, SetMax({sp[1] : sp \in spans}))
KeyMatchFrom(key, s, starts) ==
  IF starts = {} THEN None ELSE KeyMatchIn(s, KeySpans(key, s, SetMin(starts)))
keyMatch(key, s) == KeyMatchFrom(key, s, {i \in 1..Len(s) : KeySpans(key, s, i) # {}})

\* the four replace calls in order: backslash-n, backslash-t, backslash-quote,
\* backslash-backslash
unescapeCommand(t) ==
  ReplaceAll(Lit(<<Backslash, Backslash>>),
    ReplaceAll(Lit(<<Backslash, DoubleQuote>>),
      ReplaceAll(Lit(<<Backslash, "t">>),
        ReplaceAll(Lit(<<Backslash, "n">>), t, <<"\n">>),
        <<"\t">>),
      <<DoubleQuote>>),
    <<Backslash>>)
\* the three replace calls in order: backslash-n, backslash-quote,
\* backslash-backslash
unescapeExplanation(t) ==
  ReplaceAll(Lit(<<Backslash, Backslash>>),
    ReplaceAll(Lit(<<Backslash, DoubleQuote>>),
      ReplaceAll(Lit(<<Backslash, "n">>), t, <<"\n">>),
      <<DoubleQuote>>),
    <<Backslash>>)

maxIterations == 3

\* parsed.command && typeof parsed.command === 'string'
IsCommandString(member) == member.type = "string" /\ member.text # <<>>

RECURSIVE NestedLoop(_, _)
\* the loop's two locals when it is left
Break(result, iterations) == [result |-> result, iterations |-> iterations]
\* the catch block: the command pattern on the text that did not parse
NestedByPattern(result, match, iterations) ==
  IF match # None THEN NestedLoop(unescapeCommand(match[1]), iterations + 1)
  ELSE Break(result, iterations)
NestedByCommand(result, command, iterations) ==
  IF IsCommandString(command) THEN NestedLoop(command.text, iterations + 1)
  ELSE Break(result, iterations)
NestedByParse(result, parsed, iterations) ==
  IF parsed.ok THEN NestedByCommand(result, Member(parsed.members, CommandKey), iterations)
  ELSE NestedByPattern(result, keyMatch(CommandKey, result), iterations)
\* mutant: the loop runs until the text is no command object
NestedLoop_uncapped(result, iterations) ==
  IF StartsWith(result, <<"{">>) /\ Includes(result, QuotedCommandKey)
  THEN NestedByParse(result, JSONparse(result), iterations)
  ELSE Break(result, iterations)
\* the while loop of extractNestedCommand
NestedLoop(result, iterations) ==
  IF iterations < maxIterations /\ StartsWith(result, <<"{">>) /\ Includes(result, QuotedCommandKey)
  THEN NestedByParse(result, JSONparse(result), iterations)
  ELSE Break(result, iterations)
extractNestedCommand(input) == NestedLoop(Trim(input), 0).result
\* the value of iterations when extractNestedCommand(input) returns
unwrapIterations(input) == NestedLoop(Trim(input), 0).iterations

FenceWithLanguage == Cat(<<Lit(Fence), Star(Set(WordChars)), Star(Ws)>>)
PromptPrefix == Cat(<<BolM, Set({"$", "#", ">"}), Star(Ws)>>)
\* mutant: the result is trimmed but its whitespace runs are kept
sanitizeCommand_trimOnly(command) ==
  IF command = <<>> THEN <<>>
  ELSE Trim(ReplaceAll(Chr(Backtick),
         ReplaceAll(PromptPrefix,
           ReplaceAll(Lit(Fence),
             ReplaceAll(FenceWithLanguage, extractNestedCommand(Trim(command)), <<>>),
             <<>>),
           <<>>),
         <<>>))
\* mutant: the prompt characters are removed anywhere, not only at a line start
sanitizeCommand_promptAnywhere(command) ==
  IF command = <<>> THEN <<>>
  ELSE Trim(ReplaceAll(Plus(Ws),
         ReplaceAll(Chr(Backtick),
           ReplaceAll(Cat(<<Set({"$", "#", ">"}), Star(Ws)>>),
             ReplaceAll(Lit(Fence),
               ReplaceAll(FenceWithLanguage, extractNestedCommand(Trim(command)), <<>>),
               <<>>),
             <<>>),
           <<>>),
         <<" ">>))
\* the replace calls in order: nested unwrapping, opening fences, fences,
\* prompt prefixes, backticks, whitespace runs
sanitizeCommand(command) ==
  IF command = <<>> THEN <<>>
  ELSE Trim(ReplaceAll(Plus(Ws),
         ReplaceAll(Chr(Backtick),
           ReplaceAll(PromptPrefix,
             ReplaceAll(Lit(Fence),
               ReplaceAll(FenceWithLanguage, extractNestedCommand(Trim(command)), <<>>),
               <<>>),
             <<>>),
           <<>>),
         <<" ">>))

\* cleanText.match of the code-block pattern: None, or Some(group 1)
CodeBlockOpen == Cat(<<Lit(Fence), Opt(Lit(<<"j", "s", "o", "n">>)), Star(Ws)>>)
FencesFrom(s, a) == {j \in a..Len(s) : HasAt(s, Fence, j)}
CodeBlockGroup(s, a) == Some(SubSeq(s, a, SetMin(FencesFrom(s, a)) - 1))
CodeBlockFrom(s, starts) ==
  IF starts = {} THEN None
  ELSE CodeBlockGroup(s, SetMax(Ends(CodeBlockOpen, s, SetMin(starts))))
codeBlockMatch(s) ==
  CodeBlockFrom(s, {i \in 1..Len(s) :
                      HasAt(s, Fence, i) /\ FencesFrom(s, SetMax(Ends(CodeBlockOpen, s, i))) # {}})
\* cleanText.match(/\{[\s\S]*\}/): None, or Some(the match)
jsonMatch(s) ==
  LET opens == {i \in 1..Len(s) : s[i] = "{" /\ \E j \in (i + 1)..Len(s) : s[j] = "}"}
  IN IF opens = {} THEN None
     ELSE LET p == SetMin(opens)
          IN Some(SubSeq(s, p, SetMax({j \in (p + 1)..Len(s) : s[j] = "}"})))

CleanText(trimmed, block) == IF block # None THEN Trim(block[1]) ELSE trimmed
ParseMatch(json) == IF json # None THEN JSONparse(json[1]) ELSE NotParsed
ParseTrimmed(trimmed) == ParseMatch(jsonMatch(CleanText(trimmed, codeBlockMatch(trimmed))))
\* parseJSON: [ok, members]; ok = FALSE when it throws
parseJSON(text) == ParseTrimmed(Trim(text))

\* String(parsed.explanation || '')
ExplanationText(member) ==
  CASE member.type = "string" -> member.text
    [] member.type = "number" -> IF StringToNumber(member.text) = Some(0) THEN <<>> ELSE member.text
    [] member.type = "true" -> <<"t", "r", "u", "e">>
    [] member.type = "object" ->
         <<"[", "o", "b", "j", "e", "c", "t", " ", "O", "b", "j", "e", "c", "t", "]">>
    [] OTHER -> <<>>
GeneratedCommandText ==
  <<"G", "e", "n", "e", "r", "a", "t", "e", "d", " ", "c", "o", "m", "m", "a", "n", "d">>

\* the catch block of extractCommand
ExplanationByPattern(match) == IF match # None THEN unescapeExplanation(match[1]) ELSE <<>>
\* sanitizeCommand(extractNestedCommand(input)) with the explanation, and the
\* iterations of the two extractNestedCommand calls it makes (the second one
\* inside sanitizeCommand)
Unwound(nested, explanation) ==
  [command |-> sanitizeCommand(nested.result),
   explanation |-> explanation,
   unwraps |-> <<nested.iterations,
                 IF nested.result = <<>> THEN 0 ELSE unwrapIterations(Trim(nested.result))>>]
ExtractByPattern(trimmed, commandMatch) ==
  IF commandMatch # None
  THEN Unwound(NestedLoop(Trim(unescapeCommand(commandMatch[1])), 0),
               ExplanationByPattern(keyMatch(ExplanationKey, trimmed)))
  ELSE Unwound(NestedLoop(Trim(trimmed), 0), GeneratedCommandText)
ExtractParsed(trimmed, parsed) ==
  IF parsed.ok /\ IsCommandString(Member(parsed.members, CommandKey))
  THEN Unwound(NestedLoop(Trim(Member(parsed.members, CommandKey).text), 0),
               ExplanationText(Member(parsed.members, ExplanationKey)))
  ELSE ExtractByPattern(trimmed, keyMatch(CommandKey, trimmed))
extractCommand(response) == ExtractParsed(Trim(response), parseJSON(Trim(response)))

\* JSON.stringify of a string, without the surrounding quotes
IsKept(t) == t.keep
EscapeString(t) ==
  LET doubled == [k \in 1..(2 * Len(t)) |->
                    LET c == t[(k + 1) \div 2]
                    IN IF k % 2 = 1
                       THEN [c |-> Backslash, keep |-> c \in {DoubleQuote, Backslash} \cup ControlChars]
                       ELSE [c |-> CASE c = "\n" -> "n" [] c = "\t" -> "t" [] c = "\r" -> "r"
                                     [] OTHER -> c,
                             keep |-> TRUE]]
      kept == SelectSeq(doubled, IsKept)
  IN [k \in 1..Len(kept) |-> kept[k].c]

(***************************************************************************)
(* SessionManager.addCommand (services/session.ts)                         *)
(* Output strings are modelled by their length.                            *)
(***************************************************************************)
maxOutputSize == 500
TruncatedSuffixLength == 14
HistoryLimit == 20

\* truncate: undefined for a missing or empty string
truncate(str) ==
  IF str = None THEN None
  ELSE IF str[1] = 0 THEN None
  ELSE IF str[1] > maxOutputSize THEN Some(maxOutputSize + TruncatedSuffixLength)
  ELSE str

NoExecution == [exitCode |-> None, stdout |-> None, stderr |-> None]
ExecutionResults == {[exitCode |-> Some(0), stdout |-> Some(501), stderr |-> Some(0)],
                     [exitCode |-> Some(1), stdout |-> Some(0), stderr |-> Some(12)]}

HistoryEntry(q, gen, ver, executionResult) ==
  [query |-> q, command |-> gen.command, explanation |-> gen.explanation,
   confidence |-> ver.confidence,
   exitCode |-> executionResult.exitCode,
   stdout |-> truncate(executionResult.stdout),
   stderr |-> truncate(executionResult.stderr)]

\* mutant: the oldest entries are kept
LastN_keepsFirst(s, n) == IF Len(s) > n THEN SubSeq(s, 1, n) ELSE s
\* slice(-20)
LastN(s, n) == IF Len(s) > n THEN SubSeq(s, Len(s) - n + 1, Len(s)) ELSE s
addCommand(hist, q, gen, ver, executionResult) ==
  LastN(Append(hist, HistoryEntry(q, gen, ver, executionResult)), HistoryLimit)

(***************************************************************************)
(* SessionManager: the session store (services/session.ts).  The store is  *)
(* the persisted 'sessions' record, shared by every process; a manager is  *)
(* the part of one process: [store, current, next], where current is       *)
(* currentSessionId and next the identifier the next startSession makes.   *)
(* Identifiers are numbered in creation order, which is also the order of  *)
(* Object.values.  Times are milliseconds.                                 *)
(***************************************************************************)
SESSION_TIMEOUT == 24 * 60 * 60 * 1000
NoSession == 0
NullSession == [sessionId |-> NoSession, terminalId |-> "", lastActivity |-> 0, history |-> <<>>]

\* the store without the sessions in gone
Without(sessions, gone) == [id \in (DOMAIN sessions) \ gone |-> sessions[id]]

\* startSession
startSession(m, terminal, now) ==
  [store |-> (m.next :> [sessionId |-> m.next, terminalId |-> terminal,
                         lastActivity |-> now, history |-> <<>>]) @@ m.store,
   current |-> m.next,
   next |-> m.next + 1]

\* initializeSession, lines 137-140: the sessions of this terminal with
\* Date.now() - lastActivity < SESSION_TIMEOUT
ExistingSessions(sessions, terminal, now) ==
  {id \in DOMAIN sessions :
     sessions[id].terminalId = terminal /\ now - sessions[id].lastActivity < SESSION_TIMEOUT}
Resume(m, id, now) ==
  [m EXCEPT !.current = id, !.store = [m.store EXCEPT ![id].lastActivity = now]]
initializeSession(m, terminal, now) ==
  IF ExistingSessions(m.store, terminal, now) # {}
  THEN Resume(m, SetMin(ExistingSessions(m.store, terminal, now)), now)
  ELSE startSession(m, terminal, now)

\* endSession
endSession(m) ==
  IF m.current # NoSession
  THEN [m EXCEPT !.store = Without(m.store, {m.current}), !.current = NoSession]
  ELSE m

\* cleanupExpiredSessions
cleanupExpiredSessions(m, now) ==
  [m EXCEPT !.store =
     Without(m.store, {id \in DOMAIN m.store : ~(now - m.store[id].lastActivity <= SESSION_TIMEOUT)})]

\* the constructor of SessionManager, lines 109-113
NewManager(sessions, next, terminal, now) ==
  initializeSession(cleanupExpiredSessions([store |-> sessions, current |-> NoSession, next |-> next],
                                           now),
                    terminal, now)

\* sessions[id], null when there is no such key
Lookup(sessions, id) == IF id \in DOMAIN sessions THEN sessions[id] ELSE NullSession
Got(m, session) == [manager |-> m, session |-> session]
\* getCurrentSession, lines 163-167: the session is not in the store; the
\* result is read from the copy of the store taken before initializeSession
GotAfterMissing(m, sessions) == Got(m, Lookup(sessions, m.current))
\* getCurrentSession, lines 170-175: the session expired; the result is read
\* from the store again
GotAfterExpiry(m) == Got(m, Lookup(m.store, m.current))
\* getCurrentSession, lines 160-177, for a manager with a currentSessionId
GetFrom(m, terminal, now) ==
  IF m.current \notin DOMAIN m.store
  THEN GotAfterMissing(initializeSession([m EXCEPT !.current = NoSession], terminal, now), m.store)
  ELSE IF now - m.store[m.current].lastActivity > SESSION_TIMEOUT
  THEN GotAfterExpiry(initializeSession(endSession(m), terminal, now))
  ELSE Got(m, m.store[m.current])
\* getCurrentSession: [manager, session]
getCurrentSession(m, terminal, now) ==
  IF m.current = NoSession THEN GetFrom(initializeSession(m, terminal, now), terminal, now)
  ELSE GetFrom(m, terminal, now)

\* addCommand, lines 218-240, on the session getCurrentSession returned
Push(session, entry, now) ==
  [session EXCEPT !.history = LastN(Append(session.history, entry), HistoryLimit),
                  !.lastActivity = now]
Save(m, session) ==
  [m EXCEPT !.store = (session.sessionId :> session) @@ m.store]
AddTo(got, entry, now) ==
  IF got.session = NullSession THEN got.manager
  ELSE Save(got.manager, Push(got.session, entry, now))
\* SessionManager.addCommand on a manager
managerAddCommand(m, terminal, now, entry) ==
  AddTo(getCurrentSession(m, terminal, now), entry, now)

\* the processes that share the sessions file, one per terminal
Procs == {1, 2}
TerminalOf(p) == IF p = 1 THEN "ttys001" ELSE "ttys002"
MaxSessions == 3
MaxTicks == 2
MaxAppends == 2
\* how many entries a session left by earlier processes holds
PriorEntries == {0, HistoryLimit - 1, HistoryLimit}
SessionIds == 1..(MaxSessions + 1)
\* the clock advances by a millisecond or by the session timeout
Delays == {1, SESSION_TIMEOUT}

(***************************************************************************)
(* The pipeline (commands/run.ts).  One action per suspension point: the   *)
(* code that runs when an awaited provider call, prompt or execution       *)
(* settles, up to the next await.                                          *)
(***************************************************************************)
VARIABLES
  providers,            \* config: provider name -> apiKey
  defaultProvider,      \* config: defaultProvider
  confidenceThreshold,  \* config: confidenceThreshold
  provider,             \* LLMService.provider ("null" until created)
  history,              \* the current session's history
  pc,                   \* the await the pipeline is suspended at
  runs,                 \* runCommand invocations of this process
  query,                \* runCommand's query
  generated,            \* the GeneratedCommand
  verification,         \* the VerificationOutcome
  running,              \* the command handed to execute()
  branch,               \* the branch runCommand took after verification
  exit,                 \* where the current runCommand invocation returned
  chatCalls,            \* provider chat calls of the current invocation
  prompts,              \* prompts shown in the current invocation
  classified,           \* commands passed to checkSeverity in the current invocation
  executed,             \* commands handed to executeCommand in the current invocation
  recorded,             \* entries passed to addCommand in the current invocation
  execResult,           \* what executeCommand returned to execute()
  versionCheck,         \* versionCheckPromise: "notStarted" (null), "pending" or "resolved"
  checksStarted,        \* checkForUpdates calls of this process
  hintShown,            \* displayUpdateHint was reached in the current invocation
  call,                 \* a function applied on its own: [fn, arg]
  returned,             \* what that application returned: [done, value]
  store,                \* the sessions file: sessionId -> Session
  current,              \* process -> its SessionManager's currentSessionId
  started,              \* the processes whose SessionManager is constructed
  clock,                \* Date.now()
  ticks,                \* how often the clock advanced
  nextId,               \* the next fresh sessionId
  appendedTo,           \* sessionId -> entries pushed to that session so far
  appends,              \* addCommand calls so far
  touched,              \* process -> when its session was last created or refreshed
  lastCall               \* the addCommand call that just returned, if any

config == <<providers, defaultProvider, confidenceThreshold>>
observed == <<chatCalls, prompts, classified, executed, recorded>>
applied == <<call, returned>>
update == <<execResult, versionCheck, checksStarted, hintShown>>
sessionState == <<store, current, started, clock, ticks, nextId, appendedTo, appends, touched,
                  lastCall>>
vars == <<providers, defaultProvider, confidenceThreshold, provider, history, pc, runs,
          query, generated, verification, running, branch, exit,
          chatCalls, prompts, classified, executed, recorded,
          execResult, versionCheck, checksStarted, hintShown, call, returned,
          store, current, started, clock, ticks, nextId, appendedTo, appends, touched, lastCall>>

NoGenerated == [command |-> EmptyString, explanation |-> ""]
NoResult == [confidence |-> 0, isCorrect |-> FALSE, issues |-> <<>>, suggestedQuestions |-> <<>>]
NoVerification ==
  [passed |-> FALSE, result |-> NoResult, needsClarification |-> FALSE,
   isInformationalResponse |-> FALSE, extractedMessage |-> Undefined]
NoCall == [fn |-> "none", arg |-> <<>>]
NotReturned == [done |-> FALSE, value |-> <<>>]

\* the pipeline's state before runCommand is called
PipelineIdle ==
  /\ provider = "null"
  /\ history = <<>>
  /\ pc = "idle"
  /\ runs = 0
  /\ query = EmptyString
  /\ generated = NoGenerated
  /\ verification = NoVerification
  /\ running = EmptyString
  /\ branch = "none"
  /\ exit = "none"
  /\ chatCalls = <<>>
  /\ prompts = <<>>
  /\ classified = <<>>
  /\ executed = <<>>
  /\ recorded = <<>>
  /\ execResult = NoExecution
  /\ versionCheck = "notStarted"
  /\ checksStarted = 0
  /\ hintShown = FALSE

\* the sessions file and the processes before any process has started
SessionIdle ==
  /\ store = <<>>
  /\ current = [p \in Procs |-> NoSession]
  /\ started = {}
  /\ clock = 0
  /\ ticks = 0
  /\ nextId = 1
  /\ appendedTo = [id \in SessionIds |-> 0]
  /\ appends = 0
  /\ touched = [p \in Procs |-> 0]
  /\ lastCall = None

Init ==
  /\ providers \in {p \in [ProviderNames -> ApiKeys] : Cardinality({n \in ProviderNames : p[n] # ""}) <= 1}
  /\ defaultProvider = "openai"
  /\ confidenceThreshold \in Thresholds
  /\ PipelineIdle
  /\ SessionIdle
  /\ call = NoCall
  /\ returned = NotReturned

Chat(kind, outcome) == [kind |-> kind, outcome |-> outcome]
\* a prompt: its type, the command it is shown for, its default, what the
\* user entered ("default" for plain Enter) and the resulting answer
Prompt(type, subject, default, input, text) ==
  [type |-> type, subject |-> subject, default |-> default, input |-> input,
   answer |-> IF input = "default" THEN default ELSE input, text |-> text]

\* mutant: every invocation starts a release check
StartsVersionCheck_always(check) == TRUE
\* runCommand, line 19: if (!versionCheckPromise)
StartsVersionCheck(check) == check = "notStarted"
\* runCommand, lines 17-33, for a new invocation with query q
RunCommandEntry(q) ==
  /\ IF StartsVersionCheck(versionCheck)
     THEN versionCheck' = "pending" /\ checksStarted' = checksStarted + 1
     ELSE UNCHANGED <<versionCheck, checksStarted>>
  /\ execResult' = NoExecution
  /\ hintShown' = FALSE
  /\ query' = q
  /\ runs' = runs + 1
  /\ generated' = NoGenerated
  /\ verification' = NoVerification
  /\ running' = EmptyString
  /\ branch' = "none"
  /\ chatCalls' = <<>>
  /\ prompts' = <<>>
  /\ classified' = <<>>
  /\ executed' = <<>>
  /\ recorded' = <<>>
  /\ IF hasAnyProvider(providers)
     THEN pc' = "generating" /\ exit' = "none"
     ELSE pc' = "done" /\ exit' = "noProvider"

\* runCommand returns (or its catch block has run)
Return(how) == pc' = "done" /\ exit' = how

\* mutant: only executed commands are recorded
Record_executedOnly(cmd, executionResult) ==
  IF executionResult.exitCode = None
  THEN UNCHANGED <<history, recorded>>
  ELSE LET gen == [generated EXCEPT !.command = cmd]
       IN /\ history' = addCommand(history, query, gen, verification.result, executionResult)
          /\ recorded' = Append(recorded, HistoryEntry(query, gen, verification.result, executionResult))
\* mutant: the entry is written twice
Record_twice(cmd, executionResult) ==
  LET gen == [generated EXCEPT !.command = cmd]
      entry == HistoryEntry(query, gen, verification.result, executionResult)
  IN /\ history' = Append(Append(history, entry), entry)
     /\ recorded' = Append(Append(recorded, entry), entry)
\* sessionManager.addCommand from the pipeline
Record(cmd, executionResult) ==
  LET gen == [generated EXCEPT !.command = cmd]
  IN /\ history' = addCommand(history, query, gen, verification.result, executionResult)
     /\ recorded' = Append(recorded, HistoryEntry(query, gen, verification.result, executionResult))

\* execute(command): the command is handed to executeCommand
StartExecute(cmd) ==
  /\ pc' = "executing"
  /\ running' = cmd
  /\ executed' = Append(executed, cmd)

\* mutant: the three-way prompt is shown whatever the severity
DisplayAndExecute_ungated ==
  /\ classified' = Append(classified, generated.command)
  /\ pc' = "actionPrompt"
\* displayAndExecute up to its first prompt
DisplayAndExecute ==
  /\ classified' = Append(classified, generated.command)
  /\ IF requiresConfirmation(severityOf(generated.command).level)
     THEN pc' = "confirmPrompt"
     ELSE pc' = "actionPrompt"

\* mutant: a reply is shown only for a verdict that passed
Branch_passedOnly(outcome) ==
  IF outcome.passed /\ outcome.isInformationalResponse /\ Truthy(outcome.extractedMessage)
  THEN "informational"
  ELSE IF outcome.needsClarification THEN "clarification"
  ELSE "display"
\* mutant: the clarification test comes first
Branch_clarificationFirst(outcome) ==
  IF outcome.needsClarification THEN "clarification"
  ELSE IF outcome.isInformationalResponse /\ Truthy(outcome.extractedMessage) THEN "informational"
  ELSE "display"
\* runCommand, lines 44-60: which of the three displays follows verification
Branch(outcome) ==
  IF outcome.isInformationalResponse /\ Truthy(outcome.extractedMessage) THEN "informational"
  ELSE IF outcome.needsClarification THEN "clarification"
  ELSE "display"

\* index.ts: llmd <query>
Invoke ==
  /\ pc = "idle"
  /\ \E q \in Queries : RunCommandEntry(q)
  /\ UNCHANGED <<config, sessionState, applied, provider, history>>

\* mutant: an empty command is returned like any other
GenerateThrows_never(result) == FALSE
\* BaseLLMProvider.generateCommand, lines 25-27: 'Failed to extract a valid
\* command from the response' is thrown for an empty extracted command
GenerateThrows(result) == ~Truthy(result.command)
\* llmService.generateCommand settles
Generate ==
  /\ pc = "generating"
  /\ LET active == getActiveProviderConfig(providers, defaultProvider)
     IN IF provider = "null" /\ active = "null"
        THEN \* getProvider throws
             /\ Return("error")
             /\ UNCHANGED <<provider, generated, chatCalls>>
        ELSE /\ provider' = IF provider = "null" THEN active ELSE provider
             /\ \/ /\ chatCalls' = Append(chatCalls, Chat("generate", "throw"))
                   /\ Return("error")
                   /\ UNCHANGED generated
                \/ \E c \in GeneratedCommands, e \in Explanations :
                     /\ chatCalls' = Append(chatCalls, Chat("generate", "text"))
                     /\ IF ~GenerateThrows([command |-> c, explanation |-> e])
                        THEN /\ generated' = [command |-> c, explanation |-> e]
                             /\ pc' = "verifying"
                             /\ UNCHANGED exit
                        ELSE \* 'Failed to extract a valid command'
                             /\ Return("error")
                             /\ UNCHANGED generated
  /\ UNCHANGED <<config, sessionState, update, applied, history, runs, query, verification, running, branch,
                 prompts, classified, executed, recorded>>

\* verifier.verifyCommand, lines 14-19: llmService.verifyCommand settles
Verify ==
  /\ pc = "verifying"
  /\ \E response \in VerifyResponses :
       /\ chatCalls' = Append(chatCalls, Chat("verify", response.kind))
       /\ IF VerifyThrows(response)
          THEN /\ Return("error")
               /\ UNCHANGED verification
          ELSE LET result == ProviderVerifyCommand(response)
               IN /\ verification' =
                       [passed |-> Passed(result, confidenceThreshold),
                        result |-> result,
                        needsClarification |-> NeedsClarification(result, confidenceThreshold),
                        isInformationalResponse |-> FALSE,
                        extractedMessage |-> Undefined]
                  /\ pc' = "checkingInformational"
                  /\ UNCHANGED exit
  /\ UNCHANGED <<config, sessionState, update, applied, provider, history, runs, query, generated, running, branch,
                 prompts, classified, executed, recorded>>

\* verifier.verifyCommand, lines 24-30: the outcome with the informational check
WithInformational(outcome, infoCheck) ==
  [outcome EXCEPT !.isInformationalResponse = infoCheck.isInformational,
                  !.extractedMessage = infoCheck.message]
\* verifier.verifyCommand, lines 22-30, then runCommand's branch, lines 44-60
CheckInformational ==
  /\ pc = "checkingInformational"
  /\ \E response \in InfoResponses :
       LET outcome == WithInformational(verification,
                                        checkIfInformationalResponse(generated.command, query,
                                                                     response))
       IN /\ verification' = outcome
          /\ chatCalls' = IF looksLikeEchoOf(generated.command)
                          THEN Append(chatCalls, Chat("informational", response.kind))
                          ELSE chatCalls
          /\ branch' = Branch(outcome)
          /\ IF Branch(outcome) = "informational"
             THEN \* displayInformationalMessage up to its first prompt
                  /\ Record(generated.command, NoExecution)
                  /\ pc' = "infoPrompt"
                  /\ UNCHANGED classified
             ELSE IF Branch(outcome) = "clarification"
             THEN \* handleClarification up to its first prompt
                  /\ pc' = "clarifyPrompt"
                  /\ UNCHANGED <<history, recorded, classified>>
             ELSE /\ DisplayAndExecute
                  /\ UNCHANGED <<history, recorded>>
  /\ UNCHANGED <<config, sessionState, update, applied, provider, runs, query, generated, running, exit, prompts, executed>>

\* displayInformationalMessage, lines 120-148: 'What would you like to do?'
InfoPrompt ==
  /\ pc = "infoPrompt"
  /\ \E input \in {"continue", "done"} :
       LET p == Prompt("next", generated.command, "continue", input, EmptyString)
       IN /\ prompts' = Append(prompts, p)
          /\ IF p.answer = "continue"
             THEN pc' = "nextQueryPrompt" /\ UNCHANGED exit
             ELSE Return("informational")
  /\ UNCHANGED <<config, sessionState, update, applied, provider, history, runs, query, generated, verification, running, branch,
                 chatCalls, classified, executed, recorded>>

\* mutant: every answer counts, blank ones too
Answered_always(text) == TRUE
\* if (nextQuery.trim()), if (additionalInfo.trim())
Answered(text) == Truthy(Trim(text))

\* displayInformationalMessage, lines 135-145: the next query is entered
NextQueryPrompt ==
  /\ pc = "nextQueryPrompt"
  /\ \E nextQuery \in NextQueries :
       IF Answered(nextQuery)
       THEN /\ runs < MaxRuns
            /\ RunCommandEntry(nextQuery)
       ELSE /\ prompts' = Append(prompts, Prompt("nextQuery", generated.command, "", "text", nextQuery))
            /\ Return("informational")
            /\ UNCHANGED <<runs, query, generated, verification, running, branch,
                           chatCalls, classified, executed, recorded, update>>
  /\ UNCHANGED <<config, sessionState, applied, provider, history>>

\* handleClarification, lines 182-210: 'What would you like to do?'
ClarifyPrompt ==
  /\ pc = "clarifyPrompt"
  /\ \E input \in {"clarify", "run", "cancel"} :
       \* a list prompt without default preselects its first choice
       LET p == Prompt("clarification", generated.command, "clarify", input, EmptyString)
       IN /\ prompts' = Append(prompts, p)
          /\ IF p.answer = "clarify"
             THEN pc' = "additionalInfoPrompt" /\ UNCHANGED <<exit, classified>>
             ELSE IF p.answer = "run"
             THEN DisplayAndExecute /\ UNCHANGED exit
             ELSE Return("clarificationCancelled") /\ UNCHANGED classified
  /\ UNCHANGED <<config, sessionState, update, applied, provider, history, runs, query, generated, verification, running, branch,
                 chatCalls, executed, recorded>>

AdditionalContext ==
  <<".", " ", "A", "d", "d", "i", "t", "i", "o", "n", "a", "l", " ",
    "c", "o", "n", "t", "e", "x", "t", ":", " ">>

\* handleClarification, lines 196-207: 'Add more details:' is answered
AdditionalInfoPrompt ==
  /\ pc = "additionalInfoPrompt"
  /\ \E additionalInfo \in AdditionalInfos :
       IF Answered(additionalInfo)
       THEN /\ runs < MaxRuns
            /\ RunCommandEntry(query \o AdditionalContext \o additionalInfo)
       ELSE /\ prompts' = Append(prompts, Prompt("additionalInfo", generated.command, "", "text", additionalInfo))
            /\ Return("clarificationAbandoned")
            /\ UNCHANGED <<runs, query, generated, verification, running, branch,
                           chatCalls, classified, executed, recorded, update>>
  /\ UNCHANGED <<config, sessionState, applied, provider, history>>

\* displayAndExecute, lines 259-292: the dangerous-command confirm is answered
ConfirmPrompt ==
  /\ pc = "confirmPrompt"
  /\ \E input \in {"yes", "no", "default"} :
       LET p == Prompt("confirm", generated.command, "no", input, EmptyString)
       IN /\ prompts' = Append(prompts, p)
          /\ IF p.answer = "yes"
             THEN /\ StartExecute(generated.command)
                  /\ UNCHANGED <<exit, history, recorded>>
             ELSE /\ Record(generated.command, NoExecution)
                  /\ Return("cancelled")
                  /\ UNCHANGED <<running, executed>>
  /\ UNCHANGED <<config, sessionState, update, applied, provider, runs, query, generated, verification, branch,
                 chatCalls, classified>>

\* displayAndExecute, lines 295-323 and 372-382: 'Action:' is answered
ActionPrompt ==
  /\ pc = "actionPrompt"
  /\ \E input \in {"run", "edit", "cancel"} :
       LET p == Prompt("action", generated.command, "run", input, EmptyString)
       IN /\ prompts' = Append(prompts, p)
          /\ IF p.answer = "run"
             THEN /\ StartExecute(generated.command)
                  /\ UNCHANGED <<exit, history, recorded>>
             ELSE IF p.answer = "edit"
             THEN /\ pc' = "editPrompt"
                  /\ UNCHANGED <<exit, history, recorded, running, executed>>
             ELSE /\ Record(generated.command, NoExecution)
                  /\ Return("cancelled")
                  /\ UNCHANGED <<running, executed>>
  /\ UNCHANGED <<config, sessionState, update, applied, provider, runs, query, generated, verification, branch,
                 chatCalls, classified>>

\* displayAndExecute, lines 324-344 and 358: 'Edit command:' is answered
\* (Enter alone keeps the default, the generated command)
EditPrompt ==
  /\ pc = "editPrompt"
  /\ \E editedCommand \in EditedCommands \cup {generated.command} :
       /\ prompts' = Append(prompts, Prompt("edit", generated.command, "", "text", editedCommand))
       /\ IF Truthy(Trim(editedCommand))
          THEN /\ classified' = Append(classified, editedCommand)
               /\ IF requiresConfirmation(severityOf(editedCommand).level)
                  THEN /\ pc' = "editConfirmPrompt"
                       /\ running' = editedCommand
                       /\ UNCHANGED <<exit, executed>>
                  ELSE /\ StartExecute(editedCommand)
                       /\ UNCHANGED exit
          ELSE /\ Return("editAbandoned")
               /\ UNCHANGED <<classified, running, executed>>
  /\ UNCHANGED <<config, sessionState, update, applied, provider, history, runs, query, generated, verification, branch,
                 chatCalls, recorded>>

\* displayAndExecute, lines 337-358: the confirm for the edited command
EditConfirmPrompt ==
  /\ pc = "editConfirmPrompt"
  /\ \E input \in {"yes", "no", "default"} :
       LET p == Prompt("confirm", running, "no", input, EmptyString)
       IN /\ prompts' = Append(prompts, p)
          /\ IF p.answer = "yes"
             THEN /\ StartExecute(running)
                  /\ UNCHANGED <<exit, history, recorded>>
             ELSE /\ Record(running, NoExecution)
                  /\ Return("cancelled")
                  /\ UNCHANGED <<running, executed>>
  /\ UNCHANGED <<config, sessionState, update, applied, provider, runs, query, generated, verification, branch,
                 chatCalls, classified>>

\* mutant: a non-zero exit code ends the invocation in the error path
AfterVersionCheck_nonZeroIsError(executionResult) ==
  /\ versionCheck' = "resolved"
  /\ hintShown' = TRUE
  /\ IF executionResult.exitCode = Some(0)
     THEN Record(running, executionResult) /\ Return("executed")
     ELSE Return("error") /\ UNCHANGED <<history, recorded>>
\* showUpdateHintIfAvailable and the rest of execute(), lines 398-411, once
\* versionCheckPromise is settled: displayUpdateHint, return result; the
\* caller records the result (displayAndExecute, lines 269-281, 310-322,
\* 358-370)
AfterVersionCheck(executionResult) ==
  /\ versionCheck' = "resolved"
  /\ hintShown' = TRUE
  /\ Record(running, executionResult)
  /\ Return("executed")

\* execute(), lines 389-398: executeCommand settles, the outcome is printed
\* and showUpdateHintIfAvailable awaits versionCheckPromise, which by then
\* has settled or has not
Execute ==
  /\ pc = "executing"
  /\ \E executionResult \in ExecutionResults, settled \in BOOLEAN :
       /\ execResult' = executionResult
       /\ IF settled \/ versionCheck = "resolved"
          THEN AfterVersionCheck(executionResult)
          ELSE /\ pc' = "updateHint"
               /\ UNCHANGED <<history, recorded, exit, versionCheck, hintShown>>
  /\ UNCHANGED <<config, sessionState, applied, provider, runs, query, generated, verification,
                 running, branch, chatCalls, prompts, classified, executed, checksStarted>>

\* the pipeline is suspended in 'await versionCheckPromise' (line 406) until
\* checkForUpdates settles; it resolves on every path (version.ts 49-113)
ShowUpdateHint ==
  /\ pc = "updateHint"
  /\ AfterVersionCheck(execResult)
  /\ UNCHANGED <<config, sessionState, applied, provider, runs, query, generated, verification,
                 running, branch, chatCalls, prompts, classified, executed, execResult,
                 checksStarted>>

Next ==
  \/ Invoke
  \/ Generate
  \/ Verify
  \/ CheckInformational
  \/ InfoPrompt
  \/ NextQueryPrompt
  \/ ClarifyPrompt
  \/ AdditionalInfoPrompt
  \/ ConfirmPrompt
  \/ ActionPrompt
  \/ EditPrompt
  \/ EditConfirmPrompt
  \/ Execute
  \/ ShowUpdateHint

Spec == Init /\ [][Next]_vars

\* every await of the pipeline settles: the provider calls, the prompts, the
\* execution and the release check (bounded by its abort timer)
\* started from the default threshold, with and without an API key for the
\* default provider
InitLive ==
  /\ providers \in {[n \in ProviderNames |-> IF n = "openai" THEN k ELSE ""] : k \in ApiKeys}
  /\ defaultProvider = "openai"
  /\ confidenceThreshold = 70
  /\ PipelineIdle
  /\ SessionIdle
  /\ call = NoCall
  /\ returned = NotReturned
SpecLive == InitLive /\ [][Next]_vars /\ WF_vars(Next)

(***************************************************************************)
(* The functions on their own: one application of verifyCommand or         *)
(* checkSeverity to an input drawn from the sets below.                    *)
(***************************************************************************)
JsConfidences ==
  {JsUndefined, JsNull, JsBoolean(TRUE)}
  \cup {JsNumber(n) : n \in {-5, 0, 1, 42, 60, 100, 101, 150}}
  \cup {JsString(t) : t \in {<<>>, <<"8", "5">>, <<"-", "7">>, <<"2", "5", "0">>, <<"a", "b", "c">>}}
VerdictTexts ==
  {[kind |-> "garbage", parsed |-> [NoReport EXCEPT !.confidence = JsUndefined]]}
  \cup {[kind |-> "json",
         parsed |-> [confidence |-> c, isCorrect |-> b, issues |-> i, suggestedQuestions |-> q]] :
        c \in JsConfidences, b \in ReportedBooleans,
        i \in ReportedIssues, q \in ReportedQuestions}
SeverityCommands ==
  {CmdLs, CmdRmRoot, CmdChmod, CmdMv, CmdEcho, CmdRmRootPadded, CmdRmNodeModules, CmdSudoRm,
   CmdRmFile, CmdRmStar, CmdKill, CmdMvDevNull, CmdGitPush, CmdEtc, CmdForkBomb, CmdCurlWget,
   CmdSudoKill, EmptyString}

\* raw model texts: a command wrapped in nested JSON objects, each level
\* the JSON text of an object whose command member holds the level below
\* (padded: with a space before it)
MaxNesting == 8
MaxPaddedNesting == 4
CommandOpen == <<"{", DoubleQuote>> \o CommandKey \o <<DoubleQuote, ":", " ", DoubleQuote>>
Wrap(t) == CommandOpen \o EscapeString(t) \o <<DoubleQuote, "}">>
RECURSIVE Nest(_, _, _)
Nest(c, depth, pad) == IF depth = 0 THEN c ELSE Wrap(pad \o Nest(c, depth - 1, pad))
\* JSON.stringify({command, explanation})
Serialize(command, explanation) ==
  CommandOpen \o EscapeString(command)
    \o <<DoubleQuote, ",", DoubleQuote>> \o ExplanationKey \o <<DoubleQuote, ":", DoubleQuote>>
    \o EscapeString(explanation) \o <<DoubleQuote, "}">>

CmdPromptInBackticks == <<Backtick, "$", " ", "l", "s", Backtick>>
CmdTwoPrompts == <<"$", " ", "$", " ", "l", "s">>
InnerCommands == {CmdLs, CmdEcho, CmdPromptInBackticks, CmdTwoPrompts, EmptyString}
NestedText(c, depth, padded) ==
  [text |-> Nest(c, depth, IF padded THEN <<" ">> ELSE <<>>),
   inner |-> c, depth |-> depth, padded |-> padded]
ProseText(c) ==
  [NestedText(c, 1, FALSE) EXCEPT
     !.text = <<"H", "e", "r", "e", ":", " ">> \o Wrap(c) \o <<" ", "o", "k">>]
FencedText(c) ==
  [NestedText(c, 1, FALSE) EXCEPT
     !.text = Fence \o <<"j", "s", "o", "n", "\n">> \o Wrap(c) \o <<"\n">> \o Fence]
RawTexts ==
  {NestedText(CmdLs, d, FALSE) : d \in 0..MaxNesting}
  \cup {NestedText(CmdLs, d, TRUE) : d \in 1..MaxPaddedNesting}
  \cup {NestedText(c, d, p) : c \in InnerCommands, d \in 0..2, p \in BOOLEAN}
  \cup {ProseText(CmdLs), FencedText(CmdLs)}

CmdLeadingSpace == <<" ">> \o CmdLs
CmdTwoSpaces == <<"l", "s", " ", " ", "-", "l", "a">>
CmdTab == <<"l", "s", "\t", "-", "l", "a">>
CmdNewline == <<"l", "s", "\n", "-", "l", "a">>
CmdPrompt == <<"$", " ", "l", "s">>
CmdSecondLinePrompt == <<"l", "s", "\n", ">", " ", "x">>
CmdFenced == Fence \o <<"s", "h", "\n", "l", "s", "\n">> \o Fence
CmdBackticks == <<"e", "c", "h", "o", " ", Backtick, "i", "d", Backtick>>
CmdRedirect == <<"l", "s", " ", ">", " ", "o", "u", "t">>
CmdVariable == <<"e", "c", "h", "o", " ", "$", "H", "O", "M", "E">>
CmdComment == <<"l", "s", " ", "#", " ", "a", "l", "l">>
SanitizeCommands ==
  {CmdLs, CmdMv, CmdEcho, CmdRmRoot, CmdRedirect, CmdVariable, CmdComment, CmdEtc,
   CmdLeadingSpace, CmdRmRootPadded, CmdTwoSpaces, CmdTab, CmdNewline, CmdPrompt,
   CmdSecondLinePrompt, CmdTwoPrompts, CmdFenced, CmdBackticks, CmdPromptInBackticks,
   Wrap(CmdLs), EmptyString, Blank}

\* commands for the informational detector
DetectorCommands == {CmdEcho, CmdEchoEtc, CmdVariable, CmdLs}
Calls ==
  {[fn |-> "verifyCommand", arg |-> r] : r \in VerdictTexts}
  \cup {[fn |-> "checkSeverity", arg |-> c] : c \in SeverityCommands}
  \cup {[fn |-> "extractCommand", arg |-> x] : x \in RawTexts}
  \cup {[fn |-> "sanitizeCommand", arg |-> c] : c \in SanitizeCommands}
  \cup {[fn |-> "checkIfInformationalResponse",
          arg |-> [command |-> c, query |-> q, response |-> r]] :
        c \in DetectorCommands, q \in Queries, r \in InfoResponses \cup {ServiceRejects}}

InitFn ==
  /\ providers = [n \in ProviderNames |-> IF n = "openai" THEN "sk-key" ELSE ""]
  /\ defaultProvider = "openai"
  /\ confidenceThreshold = 70
  /\ PipelineIdle
  /\ SessionIdle
  /\ call \in Calls
  /\ returned = NotReturned

\* BaseLLMProvider.verifyCommand on a chat response that did not throw, and
\* the history entry addCommand builds from its result
ApplyVerifyCommand ==
  /\ call.fn = "verifyCommand"
  /\ ~returned.done
  /\ LET response == [call.arg EXCEPT !.parsed.confidence = ToNumber(@)]
         result == ProviderVerifyCommand(response)
     IN returned' = [done |-> TRUE,
                     value |-> [result |-> result,
                                entry |-> HistoryEntry(QueryList, [command |-> CmdLs, explanation |-> ""],
                                                       result, NoExecution)]]
  /\ UNCHANGED <<config, sessionState, update, provider, history, pc, runs, query, generated, verification, running,
                 branch, exit, observed, call>>

ApplyCheckSeverity ==
  /\ call.fn = "checkSeverity"
  /\ ~returned.done
  /\ returned' = [done |-> TRUE, value |-> checkSeverity(call.arg)]
  /\ UNCHANGED <<config, sessionState, update, provider, history, pc, runs, query, generated, verification, running,
                 branch, exit, observed, call>>

FirstRound(result) == [round |-> 1, first |-> result, result |-> result]
\* extractCommand on a raw model text
ApplyExtractCommand ==
  /\ call.fn = "extractCommand"
  /\ ~returned.done
  /\ returned' = [done |-> TRUE, value |-> FirstRound(extractCommand(call.arg.text))]
  /\ UNCHANGED <<config, sessionState, update, provider, history, pc, runs, query, generated, verification, running,
                 branch, exit, observed, call>>

\* the extracted pair is serialized as JSON and extracted again
ExtractAgain ==
  /\ call.fn = "extractCommand"
  /\ returned.done
  /\ returned.value.round = 1
  /\ returned' = [returned EXCEPT
                    !.value.round = 2,
                    !.value.result = extractCommand(Serialize(returned.value.first.command,
                                                              returned.value.first.explanation))]
  /\ UNCHANGED <<config, sessionState, update, provider, history, pc, runs, query, generated, verification, running,
                 branch, exit, observed, call>>

ApplySanitizeCommand ==
  /\ call.fn = "sanitizeCommand"
  /\ ~returned.done
  /\ returned' = [done |-> TRUE, value |-> sanitizeCommand(call.arg)]
  /\ UNCHANGED <<config, sessionState, update, provider, history, pc, runs, query, generated, verification, running,
                 branch, exit, observed, call>>

\* the verifier's checkIfInformationalResponse, for each way the call to
\* llmService.checkInformationalResponse can end
ApplyCheckIfInformational ==
  /\ call.fn = "checkIfInformationalResponse"
  /\ ~returned.done
  /\ returned' = [done |-> TRUE,
                  value |-> checkIfInformationalResponse(call.arg.command, call.arg.query,
                                                         call.arg.response)]
  /\ UNCHANGED <<config, sessionState, update, provider, history, pc, runs, query, generated,
                 verification, running, branch, exit, observed, call>>

NextFn ==
  \/ ApplyCheckIfInformational
  \/ ApplyVerifyCommand
  \/ ApplyCheckSeverity
  \/ ApplyExtractCommand
  \/ ExtractAgain
  \/ ApplySanitizeCommand

SpecFn == InitFn /\ [][NextFn]_vars

(***************************************************************************)
(* The session store (SessionManager in services/llm.ts) shared by the     *)
(* processes of two terminals.  Every method is synchronous, so each is    *)
(* one step.  History entries are numbered by their position among the     *)
(* entries pushed to their session.                                        *)
(***************************************************************************)
pipeline == <<config, applied, update, provider, history, pc, runs, query, generated, verification,
              running, branch, exit, observed>>

\* the sessions file earlier processes left behind: empty, or one session of
\* the first terminal, last used at time 0, with its entries numbered 1..k
Numbered(k) == [i \in 1..k |-> i]
PriorSession(k) ==
  [sessionId |-> 1, terminalId |-> TerminalOf(1), lastActivity |-> 0, history |-> Numbered(k)]
PriorFiles == {<<>>} \cup {1 :> PriorSession(k) : k \in PriorEntries}

InitSession ==
  /\ providers = [n \in ProviderNames |-> IF n = "openai" THEN "sk-key" ELSE ""]
  /\ defaultProvider = "openai"
  /\ confidenceThreshold = 70
  /\ PipelineIdle
  /\ call = NoCall
  /\ returned = NotReturned
  /\ store \in PriorFiles
  /\ nextId = IF store = <<>> THEN 1 ELSE 2
  /\ appendedTo = [id \in SessionIds |-> IF id \in DOMAIN store THEN Len(store[id].history) ELSE 0]
  /\ current = [p \in Procs |-> NoSession]
  /\ started = {}
  /\ clock = 0
  /\ ticks = 0
  /\ appends = 0
  /\ touched = [p \in Procs |-> 0]
  /\ lastCall = None

\* the SessionManager of process p over the sessions file
Manager(p) == [store |-> store, current |-> current[p], next |-> nextId]
\* the process's manager and the sessions file after a method returned m
Install(p, m) ==
  /\ m.next <= MaxSessions + 1
  /\ store' = m.store
  /\ current' = [current EXCEPT ![p] = m.current]
  /\ nextId' = m.next
  /\ touched' = [touched EXCEPT ![p] = IF m.current \in DOMAIN m.store
                                       THEN m.store[m.current].lastActivity ELSE @]

\* the session of process p is more than SESSION_TIMEOUT old
Expired(p) == clock - touched[p] > SESSION_TIMEOUT
\* a call of process p, with the session it had and whether that had expired
Called(p, method) ==
  Some([proc |-> p, method |-> method, session |-> current[p],
        expired |-> p \in started /\ Expired(p)])

\* a process starts in terminal p: new SessionManager()
StartProcess(p) ==
  /\ Install(p, NewManager(store, nextId, TerminalOf(p), clock))
  /\ started' = started \cup {p}
  /\ lastCall' = Called(p, "constructor")
  /\ UNCHANGED <<pipeline, clock, ticks, appendedTo, appends>>

\* sessionManager.getCurrentSession(), as LLMService.generateCommand calls it
GetCurrentSession(p) ==
  /\ p \in started
  /\ Install(p, getCurrentSession(Manager(p), TerminalOf(p), clock).manager)
  /\ lastCall' = Called(p, "getCurrentSession")
  /\ UNCHANGED <<pipeline, started, clock, ticks, appendedTo, appends>>

\* the number of the entry addCommand pushes to the session it got
EntryFor(session) == appendedTo[session.sessionId] + 1
Counted(session) ==
  IF session = NullSession THEN appendedTo
  ELSE [appendedTo EXCEPT ![session.sessionId] = @ + 1]
AddCommandTo(p, got) ==
  /\ Install(p, AddTo(got, EntryFor(got.session), clock))
  /\ appendedTo' = Counted(got.session)
\* sessionManager.addCommand(...)
AddCommand(p) ==
  /\ p \in started
  /\ appends < MaxAppends
  /\ AddCommandTo(p, getCurrentSession(Manager(p), TerminalOf(p), clock))
  /\ appends' = appends + 1
  /\ lastCall' = Called(p, "addCommand")
  /\ UNCHANGED <<pipeline, started, clock, ticks>>

\* time passes
Tick ==
  /\ ticks < MaxTicks
  /\ \E d \in Delays : clock' = clock + d
  /\ ticks' = ticks + 1
  /\ lastCall' = None
  /\ UNCHANGED <<pipeline, store, current, started, nextId, appendedTo, appends, touched>>

NextSession ==
  \/ \E p \in Procs : StartProcess(p)
  \/ \E p \in Procs : GetCurrentSession(p)
  \/ \E p \in Procs : AddCommand(p)
  \/ Tick

SpecSession == InitSession /\ [][NextSession]_vars

(***************************************************************************)
(* The threshold commands: 'llmd config threshold <value>' (setThreshold), *)
(* ConfigManager.setConfidenceThreshold as setup calls it, and             *)
(* 'llmd config reset'.  A number is None for NaN, Some(n) otherwise.      *)
(***************************************************************************)
DEFAULT_THRESHOLD == 70
\* the leading digits of t
RECURSIVE DigitPrefix(_)
DigitPrefix(t) ==
  IF t # <<>> /\ IsDigit(Head(t)) THEN <<Head(t)>> \o DigitPrefix(Tail(t)) ELSE <<>>
Unsigned(t) == IF t # <<>> /\ Head(t) \in {"-", "+"} THEN Tail(t) ELSE t
\* parseInt(value, 10): leading whitespace is skipped, an optional sign and
\* the digits that follow are read, and the rest of the text is ignored
parseInt(t) ==
  IF DigitPrefix(Unsigned(TrimStart(t))) = <<>> THEN None
  ELSE IF TrimStart(t)[1] = "-" THEN Some(0 - ParseDigits(DigitPrefix(Unsigned(TrimStart(t))), 0))
  ELSE Some(ParseDigits(DigitPrefix(Unsigned(TrimStart(t))), 0))
\* the schema of confidenceThreshold: a number from 0 to 100
SchemaAccepts(threshold) == threshold # None /\ threshold[1] >= 0 /\ threshold[1] <= 100
\* ConfigManager.setConfidenceThreshold: "throws" from its own test,
\* "violation" when config.set rejects the value, "set" otherwise
setConfidenceThreshold(threshold) ==
  IF threshold # None /\ (threshold[1] < 0 \/ threshold[1] > 100) THEN "throws"
  ELSE IF ~SchemaAccepts(threshold) THEN "violation"
  ELSE "set"
\* setThreshold of the config command
setThreshold(value) ==
  IF parseInt(value) = None THEN "rejected"
  ELSE IF parseInt(value)[1] < 0 \/ parseInt(value)[1] > 100 THEN "rejected"
  ELSE setConfidenceThreshold(parseInt(value))

\* what the user may pass as <value>, with the number the text denotes in
\* tenths (None when the text is no number)
Text(t, tenths) == [text |-> t, tenths |-> tenths]
ThresholdTexts ==
  {Text(<<"5", "0">>, Some(500)), Text(<<"0">>, Some(0)), Text(<<"1", "0", "0">>, Some(1000)),
   Text(<<"1", "0", "1">>, Some(1010)), Text(<<"-", "1">>, Some(-10)),
   Text(<<" ", "4", "2">>, Some(420)), Text(<<"a", "b", "c">>, None), Text(<<>>, None),
   Text(<<"5", "0", "a", "b", "c">>, None), Text(<<"1", "0", "0", ".", "5">>, Some(1005)),
   Text(<<"1", "e", "3">>, Some(10000)), Text(<<"-", "0", ".", "5">>, Some(-5)),
   Text(<<"9", "9">>, Some(990))}
\* what the number prompt of setup may hand to setConfidenceThreshold
ThresholdNumbers == {None, Some(-1), Some(0), Some(55), Some(100), Some(101)}

InitConfig ==
  /\ providers \in {[n \in ProviderNames |-> IF n = "openai" THEN k ELSE ""] : k \in ApiKeys}
  /\ defaultProvider = "openai"
  /\ confidenceThreshold \in {0, DEFAULT_THRESHOLD, 100}
  /\ PipelineIdle
  /\ SessionIdle
  /\ call = NoCall
  /\ returned = NotReturned

\* the stored threshold after an operation that ended with outcome
Stored(outcome, threshold) ==
  /\ confidenceThreshold' = IF outcome = "set" THEN threshold[1] ELSE confidenceThreshold
  /\ returned' = [done |-> TRUE, value |-> [outcome |-> outcome, before |-> confidenceThreshold]]
  /\ UNCHANGED <<providers, defaultProvider, sessionState, update, provider, history, pc, runs,
                 query, generated, verification, running, branch, exit, observed>>

\* llmd config threshold <value>
SetThreshold ==
  \E value \in ThresholdTexts :
    /\ call' = [fn |-> "setThreshold", arg |-> value]
    /\ Stored(setThreshold(value.text), parseInt(value.text))

\* configManager.setConfidenceThreshold(threshold)
SetConfidenceThreshold ==
  \E threshold \in ThresholdNumbers :
    /\ call' = [fn |-> "setConfidenceThreshold", arg |-> threshold]
    /\ Stored(setConfidenceThreshold(threshold), threshold)

\* llmd config reset: config.clear() leaves the defaults
Reset ==
  /\ call' = [fn |-> "reset", arg |-> <<>>]
  /\ providers' = [n \in ProviderNames |-> ""]
  /\ defaultProvider' = "openai"
  /\ confidenceThreshold' = DEFAULT_THRESHOLD
  /\ returned' = [done |-> TRUE, value |-> [outcome |-> "reset", before |-> confidenceThreshold]]
  /\ UNCHANGED <<sessionState, update, provider, history, pc, runs, query, generated,
                 verification, running, branch, exit, observed>>

NextConfig ==
  \/ SetThreshold
  \/ SetConfidenceThreshold
  \/ Reset

SpecConfig == InitConfig /\ [][NextConfig]_vars
(***************************************************************************)
(* Properties                                                              *)
(***************************************************************************)
Last(s) == s[Len(s)]
DangerousKnown(command) == severityOf(command).level \in {"high", "critical"}
HasChat(kind, outcomes) ==
  \E i \in 1..Len(chatCalls) : chatCalls[i].kind = kind /\ chatCalls[i].outcome \in outcomes
HasPrompt(type) == \E j \in 1..Len(prompts) : prompts[j].type = type
\* the stages that follow runCommand's branch into the command display
DisplayStages ==
  {"confirmPrompt", "actionPrompt", "editPrompt", "editConfirmPrompt", "executing", "updateHint", "done"}

\* C1: a command of level high or critical is handed to executeCommand only
\* when a confirm prompt with default "no" was shown for that very string and
\* the user entered yes; Enter alone (the default) never executes it.
C1_DangerousNeedsExplicitYes ==
  \A i \in 1..Len(executed) :
    DangerousKnown(executed[i]) =>
      \E j \in 1..Len(prompts) :
        /\ prompts[j].type = "confirm"
        /\ prompts[j].subject = executed[i]
        /\ prompts[j].default = "no"
        /\ prompts[j].input = "yes"
\* a dangerous edited command was confirmed and handed to executeCommand
C1_Witness ==
  /\ executed = <<CmdRmRootPadded>>
  /\ HasPrompt("edit")
  /\ pc = "executing"

\* C2 as stated: isInformationalResponse alone keeps the command away from
\* severity classification, confirmation and execution.
C2_Original ==
  verification.isInformationalResponse =>
    /\ classified = <<>>
    /\ executed = <<>>
    /\ ~HasPrompt("confirm") /\ ~HasPrompt("action")
\* C2 amended: when isInformationalResponse is true and extractedMessage is
\* non-empty, the informational display is taken and the command is never
\* classified, never offered for confirmation and never executed in that run.
C2_InformationalWithMessage ==
  (verification.isInformationalResponse /\ Truthy(verification.extractedMessage)) =>
    /\ branch = "informational"
    /\ pc \in {"infoPrompt", "nextQueryPrompt", "done"}
    /\ classified = <<>>
    /\ executed = <<>>
    /\ ~HasPrompt("confirm") /\ ~HasPrompt("action") /\ ~HasPrompt("clarification")
\* an informational reply is displayed although the verdict asks for clarification
C2_Witness ==
  /\ pc = "infoPrompt"
  /\ verification.isInformationalResponse
  /\ Truthy(verification.extractedMessage)
  /\ verification.needsClarification

\* C3 as stated: every return of runCommand after verification has appended
\* exactly one history entry, without execution result unless executed.
C3_EveryOutcomeRecorded ==
  (pc = "done" /\ exit \notin {"noProvider", "error"}) =>
    /\ Len(recorded) = 1
    /\ (exit # "executed" => recorded[1].exitCode = None)

C5_RaisedErrorAborts ==
  /\ (HasChat("generate", {"throw"}) \/ HasChat("verify", {"throw"})) =>
       /\ pc = "done" /\ exit = "error"
       /\ executed = <<>> /\ recorded = <<>> /\ prompts = <<>>
  /\ exit = "error" => (executed = <<>> /\ recorded = <<>>)
\* the verification call raised after a command had been generated
C5_Witness ==
  /\ HasChat("verify", {"throw"})
  /\ Truthy(generated.command)
  /\ exit = "error"

\* C6: with no API key configured for any provider, runCommand returns at
\* once: no provider call, no prompt, no execution, no history entry.
C6_NoProviderNoPipeline ==
  (\A n \in ProviderNames : providers[n] = "") =>
    /\ pc \in {"idle", "done"}
    /\ (pc = "done" => exit = "noProvider")
    /\ provider = "null"
    /\ chatCalls = <<>> /\ prompts = <<>> /\ classified = <<>>
    /\ executed = <<>> /\ recorded = <<>> /\ history = <<>>
\* runCommand has returned because nothing is configured
C6_Witness == pc = "done" /\ exit = "noProvider" /\ runs = 1

C11_ConfidenceInRange ==
  (call.fn = "verifyCommand" /\ returned.done) =>
    /\ returned.value.result.confidence \in 0..100
    /\ returned.value.entry.confidence = returned.value.result.confidence
\* a non-numeric confidence was reported and 50 came back
C11_Witness ==
  /\ call.fn = "verifyCommand"
  /\ returned.done
  /\ call.arg.kind = "json"
  /\ call.arg.parsed.confidence = JsString(<<"a", "b", "c">>)
  /\ returned.value.entry.confidence = 50

LevelRank(level) ==
  CASE level = "safe" -> 0 [] level = "low" -> 1 [] level = "medium" -> 2
    [] level = "high" -> 3 [] level = "critical" -> 4
MatchingLevels(command) ==
  {DANGER_PATTERNS[k].level :
     k \in {j \in 1..Len(DANGER_PATTERNS) : Test(DANGER_PATTERNS[j].pattern, command)}}

\* C15: checkSeverity(c).level is the greatest level, in the order
\* safe < low < medium < high < critical, among the table entries matching
\* c, and it is safe exactly when no entry matches.
C15_LevelIsMaximumOfMatches ==
  (call.fn = "checkSeverity" /\ returned.done) =>
    LET levels == MatchingLevels(call.arg)
        level == returned.value.level
    IN /\ (level = "safe") <=> (levels = {})
       /\ levels # {} =>
            /\ level \in levels
            /\ \A l \in levels : LevelRank(l) <= LevelRank(level)
\* a command matching entries of three different levels, the highest first
C15_Witness ==
  /\ call.fn = "checkSeverity"
  /\ returned.done
  /\ call.arg = CmdSudoRm
  /\ returned.value.level = "high"
  /\ MatchingLevels(call.arg) = {"high", "medium", "low"}
HasPrefix(s, w) == Len(s) >= Len(w) /\ SubSeq(s, 1, Len(w)) = w
\* the command, trimmed, starts with echo or printf followed by whitespace
EchoLike(command) ==
  LET t == Trim(command)
  IN \E w \in {<<"e", "c", "h", "o">>, <<"p", "r", "i", "n", "t", "f">>} :
       HasPrefix(t, w) /\ Len(t) > Len(w) /\ t[Len(w) + 1] \in Whitespace
CountChat(kind) == Cardinality({i \in 1..Len(chatCalls) : chatCalls[i].kind = kind})
PastVerification == pc \notin {"idle", "generating", "verifying", "checkingInformational"}

\* C12: for a generated command that does not start with echo or printf
\* followed by whitespace, the informational detector answers false without
\* a provider call: the run has made exactly two provider calls (generation,
\* verification) when the command is displayed.
C12_NoCallForRealCommands ==
  (PastVerification /\ branch # "none" /\ ~EchoLike(generated.command)) =>
    /\ ~verification.isInformationalResponse
    /\ verification.extractedMessage = Undefined
    /\ CountChat("informational") = 0
    /\ Len(chatCalls) = 2
    /\ chatCalls[1] = Chat("generate", "text")
    /\ chatCalls[2].kind = "verify"
    /\ branch # "informational"
\* 'ls -la' is on display after two provider calls
C12_Witness ==
  /\ pc = "actionPrompt"
  /\ generated.command = CmdLs
  /\ classified = <<CmdLs>>
  /\ Len(chatCalls) = 2

\* C13: after 'Run command anyway' the already generated command is
\* classified and goes through the normal confirmation flow with no further
\* generation or verification call; a high or critical command still gets
\* the confirm prompt.
C13_RunAnywayKeepsGate ==
  (\E j \in 1..Len(prompts) : prompts[j].type = "clarification" /\ prompts[j].answer = "run") =>
    /\ branch = "clarification"
    /\ classified # <<>> /\ classified[1] = generated.command
    /\ pc \in DisplayStages
    /\ CountChat("generate") = 1
    /\ CountChat("verify") = 1
    /\ DangerousKnown(generated.command) =>
         /\ pc = "confirmPrompt" \/ HasPrompt("confirm")
         /\ ~HasPrompt("action")
    /\ ~DangerousKnown(generated.command) =>
         /\ pc = "actionPrompt" \/ HasPrompt("action")
         /\ ~HasPrompt("confirm") \/ HasPrompt("edit")
\* 'rm -rf /' after 'Run command anyway' waits at the confirm prompt
C13_Witness ==
  /\ pc = "confirmPrompt"
  /\ generated.command = CmdRmRoot
  /\ prompts # <<>>
  /\ Last(prompts).type = "clarification"
  /\ Last(prompts).answer = "run"

\* C14 as stated: a command entered through 'Edit command' is verified
\* against the query again and classified again before it is executed.
C14_EditedCommandVerifiedAgain ==
  (executed # <<>> /\ HasPrompt("edit")) =>
    /\ \E i \in 1..Len(classified) : i > 1 /\ classified[i] = executed[1]
    /\ CountChat("verify") >= 2

\* C16: requiresConfirmation is true exactly for high and critical; a
\* displayed command of level safe, low or medium gets the run/edit/cancel
\* prompt, whose default is run, and never the confirm prompt.
C16_ConfirmationExactlyHighCritical ==
  /\ \A level \in {"safe", "low", "medium", "high", "critical"} :
       requiresConfirmation(level) <=> level \in {"high", "critical"}
  /\ (classified # <<>> /\ classified[1] = generated.command) =>
       LET level == severityOf(generated.command).level
       IN /\ level \in {"safe", "low", "medium"} =>
               /\ pc = "actionPrompt" \/ HasPrompt("action")
               /\ pc # "confirmPrompt"
          /\ level \in {"high", "critical"} =>
               /\ pc = "confirmPrompt" \/ HasPrompt("confirm")
               /\ pc # "actionPrompt" /\ ~HasPrompt("action")
  /\ \A j \in 1..Len(prompts) :
       prompts[j].type = "action" =>
         /\ prompts[j].default = "run"
         /\ severityOf(prompts[j].subject).level \in {"safe", "low", "medium"}
\* a medium command was run from the three-way prompt by plain choice of run
C16_Witness ==
  /\ pc = "executing"
  /\ generated.command = CmdRmNodeModules
  /\ severityOf(CmdRmNodeModules).level = "medium"
  /\ Last(prompts).type = "action"
  /\ Last(prompts).answer = "run"

\* C17 as stated: 'rm -rf ./node_modules' is classified high with reason
\* 'Recursive/force file deletion' and gets the confirm prompt.
C17_RmNodeModulesIsHigh ==
  (generated.command = CmdRmNodeModules /\ classified # <<>>) =>
    /\ severityOf(CmdRmNodeModules).level = "high"
    /\ severityOf(CmdRmNodeModules).reason = "Recursive/force file deletion"
    /\ pc = "confirmPrompt" \/ HasPrompt("confirm")

\* t is the JSON text of an object that has a command member
IsCommandObject(t) ==
  JSONparse(t).ok /\ Member(JSONparse(t).members, CommandKey).type # "undefined"
Extracted == call.fn = "extractCommand" /\ returned.done

\* C18 as stated: for a raw text that wraps a command in any number of
\* nested JSON objects with a command field, the command extractCommand
\* returns is never itself the JSON text of an object with a command field.
C18_NestingFullyUnwound ==
  (Extracted /\ call.arg.depth >= 1) => ~IsCommandObject(returned.value.first.command)

\* C19 as stated: for a singly or doubly wrapped input, serializing the
\* extracted pair as JSON and extracting again gives the same command as the
\* first extraction.
C19_ExtractionIdempotent ==
  (Extracted /\ returned.value.round = 2 /\ call.arg.depth \in 1..2) =>
    returned.value.result.command = returned.value.first.command

NoFence(c) == \A i \in 1..Len(c) : ~HasAt(c, Fence, i)
NoBacktick(c) == \A i \in 1..Len(c) : c[i] # Backtick
NoPromptAtLineStart(c) ==
  \A i \in 1..Len(c) : c[i] \in {"$", "#", ">"} => (i > 1 /\ c[i - 1] \notin LineTerminators)
NoNewline(c) == \A i \in 1..Len(c) : c[i] \notin LineTerminators
\* every whitespace character is one space between two other characters
SingleSpaced(c) ==
  \A i \in 1..Len(c) :
    c[i] \in Whitespace => (c[i] = " " /\ i > 1 /\ i < Len(c) /\ c[i + 1] \notin Whitespace)
NotNestedText(c) == ~(StartsWith(c, <<"{">>) /\ Includes(c, QuotedCommandKey))
Sanitized == call.fn = "sanitizeCommand" /\ returned.done

\* C20 as stated: sanitizeCommand returns c itself for every c with no
\* markdown fence, no shell-prompt prefix at a line start, no backtick and
\* no embedded newline.
C20_Original ==
  (Sanitized /\ NoFence(call.arg) /\ NoPromptAtLineStart(call.arg) /\ NoBacktick(call.arg)
     /\ NoNewline(call.arg)) =>
    returned.value = call.arg
\* C20, amended: sanitizeCommand returns c itself for every c with no
\* markdown fence, no shell-prompt prefix at a line start, no backtick, no
\* embedded newline, no whitespace other than single spaces between other
\* characters, and that is not a text starting with a brace that contains
\* the quoted word command.
C20_CleanCommandsUnchanged ==
  (Sanitized /\ NoFence(call.arg) /\ NoPromptAtLineStart(call.arg) /\ NoBacktick(call.arg)
     /\ NoNewline(call.arg) /\ SingleSpaced(call.arg) /\ NotNestedText(call.arg)) =>
    returned.value = call.arg
\* a clean command with a prompt character inside the line came back unchanged
C20_Witness ==
  /\ Sanitized
  /\ call.arg = CmdRedirect
  /\ NoPromptAtLineStart(call.arg) /\ SingleSpaced(call.arg) /\ NotNestedText(call.arg)
  /\ returned.value = CmdRedirect

\* C21: no stage after generation ever holds an empty command; when the
\* extracted command is empty the invocation ends in the error path with
\* no command classified, no prompt shown, nothing executed and no history
\* entry written.
C21_EmptyCommandIsGenerationFailure ==
  /\ pc \notin {"idle", "generating", "done"} => Truthy(generated.command)
  /\ generated # NoGenerated => Truthy(generated.command)
  /\ (pc = "done" /\ chatCalls # <<>> /\ Last(chatCalls) = Chat("generate", "text")) =>
       /\ exit = "error"
       /\ generated = NoGenerated
       /\ classified = <<>> /\ prompts = <<>> /\ executed = <<>> /\ recorded = <<>>
\* the provider answered and the extracted command was empty
C21_Witness ==
  /\ pc = "done"
  /\ exit = "error"
  /\ chatCalls = <<Chat("generate", "text")>>
  /\ recorded = <<>>

\* C22: a session's history never holds more than 20 entries, and it is the
\* last 20 (or all, when fewer) of the entries pushed to it, in push order.
C22_HistoryKeepsLastTwenty ==
  \A id \in DOMAIN store :
    /\ Len(store[id].history) <= 20
    /\ Len(store[id].history) = (IF appendedTo[id] > 20 THEN 20 ELSE appendedTo[id])
    /\ \A i \in 1..Len(store[id].history) :
         store[id].history[i] = appendedTo[id] - Len(store[id].history) + i
\* a session that was pushed 22 entries holds entries 3..22
C22_Witness ==
  \E id \in DOMAIN store :
    /\ appendedTo[id] = 22
    /\ appends >= 2
    /\ Len(store[id].history) = 20
    /\ store[id].history[1] = 3
    /\ store[id].history[20] = 22

\* C24: a session more than 24 hours old is deleted from the store when a
\* process starts or when its own process next reaches it, and the next
\* addCommand of that terminal lands in a new session whose history is just
\* that entry; every addCommand leaves lastActivity at the current time.
C24_ExpiredSessionIsReplaced ==
  lastCall # None =>
    /\ lastCall[1].method = "constructor" =>
         \A id \in DOMAIN store : clock - store[id].lastActivity <= SESSION_TIMEOUT
    /\ lastCall[1].expired => lastCall[1].session \notin DOMAIN store
    /\ lastCall[1].method = "addCommand" =>
         /\ current[lastCall[1].proc] \in DOMAIN store
         /\ store[current[lastCall[1].proc]].lastActivity = clock
         /\ lastCall[1].expired =>
              /\ current[lastCall[1].proc] # lastCall[1].session
              /\ Len(store[current[lastCall[1].proc]].history) = 1

\* C23: the stdout and the stderr stored in a history entry are at most 500
\* characters long, whatever the command printed.
C23_StoredOutputAtMost500 ==
  \A i \in 1..Len(history) :
    /\ history[i].stdout # None => history[i].stdout[1] <= 500
    /\ history[i].stderr # None => history[i].stderr[1] <= 500

\* C25: the pipeline never waits for the release check: when the check has
\* not settled by the time execute() looks at it, it is dropped, so a
\* completed execution is returned and recorded without a pending check in
\* between.
C25_ReleaseCheckNeverDelays ==
  ~(/\ pc = "updateHint"
    /\ versionCheck = "pending"
    /\ execResult \in ExecutionResults
    /\ recorded = <<>>)

\* C26: checkForUpdates is called at most once in a process, however many
\* times runCommand is invoked, and its result is looked at only after
\* executeCommand has returned a result in the current invocation.
C26_ReleaseCheckOnceAfterExecution ==
  /\ checksStarted <= 1
  /\ (versionCheck = "notStarted") = (checksStarted = 0)
  /\ versionCheck = "resolved" => execResult \in ExecutionResults
  /\ hintShown =>
       /\ Len(executed) = 1
       /\ execResult \in ExecutionResults
       /\ versionCheck = "resolved"
\* the second invocation of the process executed a command and showed the
\* hint of the one check the first invocation started
C26_Witness ==
  /\ runs = 2
  /\ checksStarted = 1
  /\ hintShown
  /\ pc = "done"
  /\ exit = "executed"

ChatRank(kind) == CASE kind = "generate" -> 1 [] kind = "verify" -> 2 [] kind = "informational" -> 3
\* the provider calls of the invocation are generate, verify, informational
\* check, in that order and at most once each
ChatInOrder ==
  \A i, j \in 1..Len(chatCalls) : i < j => ChatRank(chatCalls[i].kind) < ChatRank(chatCalls[j].kind)
VerificationReturned == HasChat("verify", {"json", "garbage"})
\* at most one execution and one history write, the write after the execution
OneExecutionOneWrite ==
  /\ Len(executed) <= 1
  /\ Len(recorded) <= 1
  /\ pc \in {"executing", "updateHint"} => (Len(executed) = 1 /\ recorded = <<>>)
  /\ (executed # <<>> /\ recorded # <<>>) => pc = "done"

\* C28 as stated: the steps of an invocation come in the order generate,
\* verify, informational check, severity check, user prompt, execute, record;
\* in particular every prompt follows the one severity check, and a command
\* is executed only after verification returned and the user chose run or
\* confirmed.
C28_Original ==
  /\ ChatInOrder
  /\ OneExecutionOneWrite
  /\ classified # <<>> => (VerificationReturned /\ Len(classified) = 1)
  /\ (classified # <<>> /\ prompts # <<>>) => prompts[1].type \in {"confirm", "action"}
  /\ executed # <<>> =>
       /\ VerificationReturned
       /\ \/ Last(prompts).type = "action" /\ Last(prompts).answer = "run"
          \/ Last(prompts).type = "confirm" /\ Last(prompts).answer = "yes"

\* C28, amended: the provider calls come in the order generate, verify,
\* informational check; a command is severity-checked and a prompt is shown
\* only after verification returned; a command is executed only after its own
\* severity check and after the user chose run, confirmed it, or entered it
\* at the edit prompt with a severity that needs no confirmation; there is at
\* most one execution and one history write, the write after the execution.
C28_PipelineOrder ==
  /\ ChatInOrder
  /\ OneExecutionOneWrite
  /\ (classified # <<>> \/ prompts # <<>>) => (VerificationReturned /\ PastVerification)
  /\ executed # <<>> =>
       /\ VerificationReturned
       /\ Last(classified) = executed[1]
       /\ \/ /\ Last(prompts).type = "action"
             /\ Last(prompts).answer = "run"
             /\ executed[1] = generated.command
          \/ /\ Last(prompts).type = "confirm"
             /\ Last(prompts).answer = "yes"
             /\ Last(prompts).subject = executed[1]
          \/ /\ Last(prompts).type = "edit"
             /\ Last(prompts).text = executed[1]
             /\ severityOf(executed[1]).level \in {"safe", "low", "medium"}
\* after 'Run command anyway' and 'Edit command' an edited command was
\* executed and recorded without a further choice
C28_Witness ==
  /\ pc = "done"
  /\ exit = "executed"
  /\ Len(chatCalls) = 2
  /\ Len(prompts) = 3
  /\ prompts[1].type = "clarification"
  /\ prompts[3].type = "edit"
  /\ classified = <<generated.command, CmdMv>>
  /\ executed = <<CmdMv>>
  /\ Len(recorded) = 1

Matched(command) ==
  {k \in 1..Len(DANGER_PATTERNS) : Test(DANGER_PATTERNS[k].pattern, command)}
TopMatched(matched) ==
  {k \in matched : \A j \in matched :
     LevelRank(DANGER_PATTERNS[j].level) <= LevelRank(DANGER_PATTERNS[k].level)}
FirstSeen(matched, reason) == SetMin({k \in matched : DANGER_PATTERNS[k].reason = reason})
ReasonsInTableOrder(matched, warnings) ==
  /\ {warnings[i] : i \in 1..Len(warnings)} = {DANGER_PATTERNS[k].reason : k \in matched}
  /\ \A i, j \in 1..Len(warnings) :
       i < j => FirstSeen(matched, warnings[i]) < FirstSeen(matched, warnings[j])
SeverityAsTabulated(matched, check) ==
  /\ IF matched = {} THEN check.reason = ""
     ELSE check.reason = DANGER_PATTERNS[SetMin(TopMatched(matched))].reason
  /\ ReasonsInTableOrder(matched, check.warnings)
  /\ (check.warnings = <<>>) <=> (check.level = "safe")

\* C31: checkSeverity tests every table entry: reason is the reason of the
\* first entry, in table order, among the matched entries of maximum level;
\* warnings lists the reasons of all matched entries of any level, without
\* duplicates and in first-seen table order; warnings is empty exactly when
\* level is safe.
C31_ReasonAndWarnings ==
  (call.fn = "checkSeverity" /\ returned.done) =>
    SeverityAsTabulated(Matched(call.arg), returned.value)
\* two matched entries share one reason text, and it is reported once
C31_Witness ==
  /\ call.fn = "checkSeverity"
  /\ returned.done
  /\ call.arg = CmdCurlWget
  /\ Cardinality(Matched(call.arg)) = 2
  /\ Len(returned.value.warnings) = 1
\* two matched entries of the maximum level: the earlier one gives the reason
C31_WitnessFirstOfTop ==
  /\ call.fn = "checkSeverity"
  /\ returned.done
  /\ call.arg = CmdSudoKill
  /\ Cardinality(TopMatched(Matched(call.arg))) = 2
  /\ returned.value.reason = "Runs command with elevated privileges"

(***************************************************************************)
(* C32                                                                     *)
(***************************************************************************)
\* C32: the confidence returned by verification is the reported value
\* clamped into [0,100]: every reported integer v, 0 and the out-of-range
\* values included, yields min(100, max(0, v)), and a missing value yields
\* the default 50.
C32_ReportedConfidenceClamped ==
  (call.fn = "verifyCommand" /\ returned.done /\ call.arg.kind = "json") =>
    LET reported == call.arg.parsed.confidence
        confidence == returned.value.result.confidence
    IN /\ reported.type = "number" =>
            confidence = Min(100, Max(0, reported.num))
       /\ reported.type = "undefined" => confidence = 50

(***************************************************************************)
(* C33                                                                     *)
(***************************************************************************)
\* C33: every command returned by sanitizeCommand, for any input, is a
\* single line: it contains no newline or tab, no backtick, no markdown
\* fence, no leading or trailing whitespace and no run of two or more
\* whitespace characters.
C33_SanitizedIsSingleLine ==
  Sanitized =>
    /\ NoNewline(returned.value)
    /\ \A i \in 1..Len(returned.value) : returned.value[i] # "\t"
    /\ NoBacktick(returned.value)
    /\ NoFence(returned.value)
    /\ SingleSpaced(returned.value)
\* a fenced command spread over three lines came back as the bare command
C33_Witness ==
  /\ Sanitized
  /\ call.arg = CmdFenced
  /\ ~NoFence(call.arg) /\ ~NoNewline(call.arg)
  /\ returned.value = <<"l", "s">>

(***************************************************************************)
(* C34                                                                     *)
(***************************************************************************)
\* C34: extractCommand returns on every input, however deep or malformed
\* the nesting: each call of extractNestedCommand performs at most 3 unwrap
\* iterations, and the whole extraction, which makes two such calls,
\* performs at most 6.
C34_UnwrapsBounded ==
  Extracted =>
    /\ \A round \in {returned.value.first, returned.value.result} :
         /\ Len(round.unwraps) = 2
         /\ \A k \in 1..2 : round.unwraps[k] \in 0..maxIterations
         /\ round.unwraps[1] + round.unwraps[2] <= 2 * maxIterations
\* both calls stopped at the cap and left a command object behind
C34_Witness ==
  /\ Extracted
  /\ call.arg.depth >= 2 * maxIterations + 2
  /\ returned.value.first.unwraps = <<maxIterations, maxIterations>>
  /\ IsCommandObject(returned.value.first.command)

(***************************************************************************)
(* C35                                                                     *)
(***************************************************************************)
Reruns(from, to) ==
  /\ from \in {"additionalInfoPrompt", "nextQueryPrompt"}
  /\ to = "generating"
\* a step that enters runCommand again from one of the two prompts
OneFurtherGeneration ==
  /\ runs' = runs + 1
  /\ chatCalls' = <<>>
  /\ pc = "additionalInfoPrompt" =>
       \E a \in AdditionalInfos : query' = query \o AdditionalContext \o a
  /\ pc = "nextQueryPrompt" => query' \in NextQueries
\* the prompt is left without a further invocation
NoFurtherGeneration == pc' = "done" /\ runs' = runs /\ chatCalls' = chatCalls
GenerationCalls == CountChat("generate")
OneGenerationPerInvocation ==
  /\ pc = "generating" => GenerationCalls = 0
  /\ pc \notin {"idle", "generating"} => GenerationCalls = 1

\* C35 as stated: the invocation eventually returns; each choice of
\* 'Provide more details' or 'Continue with another command' with a
\* non-empty answer starts exactly one further generation, and every
\* invocation makes exactly one generation call.
NonEmptyAnswerReruns ==
  pc \in {"additionalInfoPrompt", "nextQueryPrompt"} =>
    /\ Reruns(pc, pc') => OneFurtherGeneration
    /\ ~Reruns(pc, pc') => (NoFurtherGeneration /\ Last(prompts').text = EmptyString)
NonBlankAnswerReruns ==
  pc \in {"additionalInfoPrompt", "nextQueryPrompt"} =>
    /\ Reruns(pc, pc') =>
         /\ OneFurtherGeneration
         /\ pc = "additionalInfoPrompt" =>
              \E a \in AdditionalInfos :
                Truthy(Trim(a)) /\ query' = query \o AdditionalContext \o a
         /\ pc = "nextQueryPrompt" => Truthy(Trim(query'))
    /\ ~Reruns(pc, pc') => (NoFurtherGeneration /\ ~Truthy(Trim(Last(prompts').text)))
EntryStoredLast(p) ==
  /\ current[p] \in DOMAIN store
  /\ store[current[p]].history # <<>>
  /\ Last(store[current[p]].history) = appendedTo[current[p]]
\* a stored history changes only by one push with the 20-entry eviction,
\* and a session leaves the store only when it is more than 24 hours old
EntriesKept ==
  \A id \in DOMAIN store :
    IF id \in DOMAIN store'
    THEN \/ store'[id].history = store[id].history
         \/ store'[id].history = LastN(Append(store[id].history, appendedTo[id] + 1), HistoryLimit)
    ELSE clock - store[id].lastActivity > SESSION_TIMEOUT

\* C36: under any interleaving of two processes that share the session
\* store, each addCommand call leaves its entry stored as the last element
\* of the history of the calling terminal's current session, also when the
\* other process has meanwhile removed that session or written the store; a
\* recorded entry disappears only through the 20-entry eviction or session
\* expiry.
C36_EntryStoredUnderInterleaving ==
  /\ []((lastCall # None /\ lastCall[1].method = "addCommand") => EntryStoredLast(lastCall[1].proc))
  /\ [][EntriesKept]_vars

(***************************************************************************)
(* C37                                                                     *)
(***************************************************************************)
OneSessionPerTerminal ==
  \A a, b \in DOMAIN store : store[a].terminalId = store[b].terminalId => a = b
\* cleanupExpiredSessions keeps the session and getCurrentSession does not
\* expire it
KeptAndNotExpired(session, now) ==
  /\ now - session.lastActivity <= SESSION_TIMEOUT
  /\ ~(now - session.lastActivity > SESSION_TIMEOUT)
StartReusesKeptSession ==
  (lastCall' # None /\ lastCall'[1].method = "constructor") =>
    \A id \in DOMAIN store :
      store[id].terminalId = TerminalOf(lastCall'[1].proc) =>
        ((current'[lastCall'[1].proc] = id) <=> KeptAndNotExpired(store[id], clock))

\* C37: after any sequence of process starts, commands and clock advances
\* the session store holds at most one session per terminal id: a process
\* start reuses the stored session of its terminal exactly when
\* cleanupExpiredSessions keeps it and getCurrentSession does not expire
\* it, including when the inactivity is exactly 24 hours.
C37_OneSessionPerTerminal ==
  /\ []OneSessionPerTerminal
  /\ [][StartReusesKeptSession]_vars

(***************************************************************************)
(* C38                                                                     *)
(***************************************************************************)
OutOfRange(tenths) == tenths = None \/ tenths[1] < 0 \/ tenths[1] > 1000
Refused == returned.value.outcome # "set" /\ confidenceThreshold = returned.value.before

\* C38: the stored confidence threshold is within [0,100] after any
\* sequence of setThreshold, setConfidenceThreshold and reset operations: a
\* value below 0, above 100 or not a number is rejected and leaves the
\* stored threshold unchanged, and after reset the threshold is the
\* default 70.
C38_ThresholdStaysValid ==
  /\ confidenceThreshold \in 0..100
  /\ (call.fn = "setThreshold" /\ OutOfRange(call.arg.tenths)) => Refused
  /\ (call.fn = "setConfidenceThreshold"
        /\ (call.arg = None \/ call.arg[1] < 0 \/ call.arg[1] > 100)) => Refused
  /\ call.fn = "reset" => confidenceThreshold = DEFAULT_THRESHOLD

====
